---- MODULE Spec2Model ----
(***************************************************************************)
(* A model of the minimal spanning motion-primitive generator             *)
(* (smac_planner/lattice_primitives/lattice_generator.py).                 *)
(*                                                                         *)
(* Numbers.  The program computes in floating point; the model computes    *)
(* exactly, in integers:                                                   *)
(*   - a heading in degrees is an integer number of millidegrees           *)
(*     (26.565 degrees = 26565);                                           *)
(*   - an angle in radians is an integer number of half millidegrees, so   *)
(*     that Pi = 360000 and np.deg2rad doubles its argument: a value in    *)
(*     degrees used where radians are meant is then a different number;    *)
(*   - a position is a pair of integers over the denominator den of the    *)
(*     path it belongs to (the candidate paths bend at rational points);   *)
(*   - a length is an integer number of thousandths of the unit of the     *)
(*     configuration, rounded down.                                        *)
(***************************************************************************)
EXTENDS Integers, Sequences, FiniteSets, TLC

VARIABLES
    config,                        \* the configuration given to __init__
    generator,                     \* the curve generator in use (a deterministic one)
    pc,                            \* where run() is
    headingIdx,                    \* position of the for loop over initial_headings
    current_level,                 \* current_level of generate_minimal_spanning_set
    pointIdx,                      \* position of the for loop over positions
    targetIdx,                     \* position of the for loop over target_headings
    single_quadrant_headings,      \* single_quadrant_headings: the discretization
    initial_headings,              \* initial_headings of the search
    target_headings,               \* target_headings of the current start heading
    positions,                     \* positions of the current level
    trajectory,                    \* trajectory: what generate_trajectory returned last
    minimal_trajectory_set,        \* the end poses recorded for the current start heading
    single_quadrant_spanning_set,  \* start heading -> accepted (target_point, target_heading)
    expandKey,                     \* position of the for loop over the keys (expansion)
    expandIdx,                     \* position of the for loop over one key's list
    all_trajectories,              \* start heading -> primitives: the output
    request_count,                 \* history: the number of trajectory requests made
    last_request,                  \* history: the last trajectory request and its outcome
    visits,                        \* history: the <<start heading index, level>> pairs visited
    returned,                      \* history: how the earlier calls of run() ended
    test_robot,                    \* the NavTester node of the system test: its fields
    test,                          \* where test_all is, its locals and its history
    amcl_pose                      \* the messages in flight on /amcl_pose

vars == <<config, generator, trajectory, pc, headingIdx, current_level, pointIdx, targetIdx,
          single_quadrant_headings, initial_headings, target_headings, positions, minimal_trajectory_set, single_quadrant_spanning_set, expandKey,
          expandIdx, all_trajectories, request_count, last_request, visits, returned, test_robot, test, amcl_pose>>

----------------------------------------------------------------------------
(* Bounds of the model.                                                    *)

MaxHeadings == 16     \* numberOfHeadings ranges over 1..MaxHeadings
MaxLength == 2        \* maxLength ranges over 1..MaxLength
MaxRadius == 2        \* turningRadius ranges over 1..MaxRadius

HeadingCounts == 1..MaxHeadings

GridSeparations == {1, 2}

MotionModelNames == {"ackermann", "diff", "omni", "bicycle"}

Configs ==
    [numberOfHeadings : HeadingCounts, gridSeparation : GridSeparations,
     turningRadius : 1..MaxRadius, maxLength : 1..MaxLength,
     motionModel : MotionModelNames]

----------------------------------------------------------------------------
(* Arithmetic.                                                             *)

Abs(x) == IF x < 0 THEN -x ELSE x

Min(a, b) == IF a <= b THEN a ELSE b

Max(a, b) == IF a >= b THEN a ELSE b

RECURSIVE Gcd(_, _)
Gcd(a, b) == IF b = 0 THEN a ELSE Gcd(b, a % b)

\* np.pi, in half millidegrees.
Pi == 360000

\* np.deg2rad: millidegrees to half millidegrees.
Deg2Rad(d) == 2 * d

\* np.rad2deg: half millidegrees to millidegrees (every angle met is even).
Rad2Deg(r) == r \div 2

\* arctan(a / b) for 0 <= a <= b, 0 < b, a and b coprime and at most 4,
\* in half millidegrees (rounded to the millidegree, so that
\* arctan(a/b) + arctan(b/a) is exactly a quarter turn).
ArcTanOctant(a, b) ==
    CASE a = 0 -> 0
      [] a = b -> 90000
      [] a = 1 /\ b = 2 -> 53130
      [] a = 1 /\ b = 3 -> 36870
      [] a = 2 /\ b = 3 -> 67380
      [] a = 1 /\ b = 4 -> 28072
      [] a = 3 /\ b = 4 -> 73740

\* arctan2 for y >= 0, x >= 0, not both 0.
ArcTanQuadrant(y, x) ==
    LET g == Gcd(x, y)
    IN  IF y <= x THEN ArcTanOctant(y \div g, x \div g)
        ELSE Pi \div 2 - ArcTanOctant(x \div g, y \div g)

\* A variant of ArcTan2 that is wrong in the third quadrant (it forgets the
\* half turn), to tell the properties of the headings from their absence.
ArcTan2ForgettingHalfTurn(y, x) ==
    IF x = 0 /\ y = 0 THEN 0
    ELSE IF x >= 0
         THEN IF y >= 0 THEN ArcTanQuadrant(y, x) ELSE -ArcTanQuadrant(-y, x)
         ELSE IF y >= 0 THEN Pi - ArcTanQuadrant(y, -x)
              ELSE ArcTanQuadrant(-y, -x)

\* np.arctan2(y, x), in half millidegrees, in (-Pi, Pi]; arctan2(0, 0) = 0.
ArcTan2(y, x) ==
    IF x = 0 /\ y = 0 THEN 0
    ELSE IF x >= 0
         THEN IF y >= 0 THEN ArcTanQuadrant(y, x) ELSE -ArcTanQuadrant(-y, x)
         ELSE IF y >= 0 THEN Pi - ArcTanQuadrant(y, -x)
              ELSE -Pi + ArcTanQuadrant(-y, -x)

\* Python's round(a / b) for a >= 0, b > 0: to the nearest integer, a half
\* to the even one.
RoundDiv(a, b) ==
    LET q == a \div b
        r == a % b
    IN  IF 2 * r < b THEN q
        ELSE IF 2 * r > b THEN q + 1
        ELSE IF q % 2 = 0 THEN q ELSE q + 1

----------------------------------------------------------------------------
(* Sequences.                                                              *)

Range(s) == {s[k] : k \in DOMAIN s}

RECURSIVE SeqFilter(_, _)
\* filter(...): the elements of s that are in the set keep, in order.
SeqFilter(s, keep) ==
    IF s = <<>> THEN <<>>
    ELSE IF Head(s) \in keep THEN <<Head(s)>> \o SeqFilter(Tail(s), keep)
    ELSE SeqFilter(Tail(s), keep)

\* The lexicographic order on pairs of integers.
PairLess(a, b) == a[1] < b[1] \/ (a[1] = b[1] /\ a[2] < b[2])

\* sorted(..., key=...): stable, on a sequence of <<key, value>>, a key a
\* pair of integers. The element at index i goes to the place that the
\* number of the elements sorting before it gives.
SortKeyed(s) ==
    LET Before(j, i) ==
            \/ PairLess(s[j][1], s[i][1])
            \/ (~PairLess(s[i][1], s[j][1]) /\ j < i)
        Place(i) == 1 + Cardinality({j \in DOMAIN s : Before(j, i)})
    IN  [k \in DOMAIN s |-> s[CHOOSE i \in DOMAIN s : Place(i) = k]]

\* The values of a sequence of <<key, value>>.
Values(s) == [k \in DOMAIN s |-> s[k][2]]

----------------------------------------------------------------------------
(* The configuration (LatticeGenerator.__init__).                          *)

\* str.upper on the motion model names of the model.
Upper(name) ==
    CASE name = "ackermann" -> "ACKERMANN"
      [] name = "diff" -> "DIFF"
      [] name = "omni" -> "OMNI"
      [] name = "bicycle" -> "BICYCLE"

\* A variant of MotionModel with one member more.
MotionModelWithBicycle == {"ACKERMANN", "DIFF", "OMNI", "BICYCLE"}

\* The members of the enumeration MotionModel that the code names.
MotionModel == {"ACKERMANN", "DIFF", "OMNI"}

\* A variant of max_level that lets the search run one level further.
max_level_and_one(c) == RoundDiv(c.maxLength, c.gridSeparation) + 1

\* self.max_level
max_level(c) == RoundDiv(c.maxLength, c.gridSeparation)

\* np.pi as a fraction, where a length is computed from it.
PiNum == 355

PiDen == 113

\* compute_min_trajectory_length, as the fraction <<numerator, denominator>>.
compute_min_trajectory_length(c) ==
    <<2 * PiNum * c.turningRadius, PiDen * c.numberOfHeadings>>

\* A length given as the fraction <<numerator, denominator>>, in thousandths.
Milli(l) == (1000 * l[1]) \div l[2]

\* min_trajectory_length, in thousandths.
min_trajectory_length(c) == Milli(compute_min_trajectory_length(c))

\* arc_length of create_complete_minimal_spanning_set, in thousandths:
\* 2 * np.pi * radius * abs(start_angle - end_angle) / 360.0, the angles in
\* millidegrees.
arc_length(radius, start_angle, end_angle) ==
    (2 * PiNum * radius * Abs(start_angle - end_angle)) \div (PiDen * 360)

\* start_level of generate_minimal_spanning_set.
start_level(c) ==
    LET l == compute_min_trajectory_length(c)
    IN  l[1] \div (l[2] * c.gridSeparation)

----------------------------------------------------------------------------
(* get_coords_at_level and get_heading_discretization.                     *)

RECURSIVE CoordsFrom(_, _, _)
\* The loop of get_coords_at_level from i on, then the corner.
CoordsFrom(i, level, sep) ==
    IF i >= level THEN << <<sep * level, sep * level>> >>
    ELSE << <<sep * level, sep * i>>, <<sep * i, sep * level>> >>
         \o CoordsFrom(i + 1, level, sep)

get_coords_at_level(c, level) == CoordsFrom(0, level, c.gridSeparation)

\* max_val: int((((n + 4) / 4) - 1) / 2), which is int(n / 8).
MaxVal(n) == n \div 8

RECURSIVE OuterEdgeKeepingCorners(_, _)
\* A variant of OuterEdgeFrom that does not skip the corners in its second
\* pair of points.
OuterEdgeKeepingCorners(i, m) ==
    IF i > m THEN <<>>
    ELSE << <<i, -m>>, <<i, m>>, <<-m, i>>, <<m, i>> >>
         \o OuterEdgeKeepingCorners(i + 1, m)

RECURSIVE OuterEdgeFrom(_, _)
\* The loop of get_heading_discretization from i on: the points <<x, y>> of
\* zip(outer_edge_x, outer_edge_y).
OuterEdgeFrom(i, m) ==
    IF i > m THEN <<>>
    ELSE << <<i, -m>>, <<i, m>> >>
         \o (IF i # m /\ i # -m THEN << <<-m, i>>, <<m, i>> >> ELSE <<>>)
         \o OuterEdgeFrom(i + 1, m)

\* get_heading_discretization: the headings in millidegrees, in the order
\* of the list returned.
HeadingsOf(n) ==
    LET edge == OuterEdgeFrom(-MaxVal(n), MaxVal(n))
    IN  [k \in DOMAIN edge |-> Rad2Deg(ArcTan2(edge[k][2], edge[k][1]))]

\* The headings of each number of headings of the model, computed once.
HeadingTable == [n \in HeadingCounts |-> HeadingsOf(n)]

get_heading_discretization(c) == HeadingTable[c.numberOfHeadings]

\* initial_headings of generate_minimal_spanning_set, hs the discretization.
InitialHeadings(hs) ==
    LET kept == SeqFilter(hs, {x \in Range(hs) : 0 <= x /\ x < 90000})
    IN  Values(SortKeyed([k \in DOMAIN kept |-> << <<kept[k], 0>>, kept[k] >>]))

\* A variant of TargetHeadings that breaks the ties toward the smaller angle.
TargetHeadingsTiesToSmaller(hs, start_heading) ==
    LET sorted == Values(SortKeyed(
            [k \in DOMAIN hs |-> << <<Abs(hs[k] - start_heading), hs[k]>>, hs[k] >>]))
    IN  SeqFilter(sorted, {x \in Range(hs) : Abs(start_heading - x) <= 90000})

\* target_headings of generate_minimal_spanning_set for a start heading.
TargetHeadings(hs, start_heading) ==
    LET sorted == Values(SortKeyed(
            [k \in DOMAIN hs |-> << <<Abs(hs[k] - start_heading), -hs[k]>>, hs[k] >>]))
    IN  SeqFilter(sorted, {x \in Range(hs) : Abs(start_heading - x) <= 90000})

\* initial_headings for each number of headings of the model, and
\* target_headings for each of its start headings, computed once.
InitialHeadingsTable == [n \in HeadingCounts |-> InitialHeadings(HeadingTable[n])]

TargetHeadingsTable ==
    [n \in HeadingCounts |->
        [h \in Range(InitialHeadingsTable[n]) |-> TargetHeadings(HeadingTable[n], h)]]

----------------------------------------------------------------------------
(* Geometry: angle_difference, point_to_line_distance, is_minimal_path.    *)

\* angle_difference, on angles in radians.
angle_difference(angle_1, angle_2) ==
    LET difference == Abs(angle_1 - angle_2)
    IN  IF difference > Pi THEN 2 * Pi - difference ELSE difference

Dot(a, b) == a[1] * b[1] + a[2] * b[2]

Cross(a, b) == a[1] * b[2] - a[2] * b[1]

Minus(a, b) == <<a[1] - b[1], a[2] - b[2]>>

\* A variant of point_to_line_distance that measures to the whole line
\* through p1 and p2 instead of the segment.
point_to_unbounded_line_distance(p1, p2, q) ==
    LET l2 == Dot(Minus(p1, p2), Minus(p1, p2))
        d == Dot(Minus(q, p1), Minus(p2, p1))
    IN  IF l2 = 0 THEN <<Dot(Minus(p1, q), Minus(p1, q)), 1>>
        ELSE <<Dot(Minus(q, p1), Minus(q, p1)) * l2 - d * d, l2>>

\* point_to_line_distance: the square of the distance from q to the segment
\* p1 p2, as the fraction <<numerator, denominator>>.
point_to_line_distance(p1, p2, q) ==
    LET l2 == Dot(Minus(p1, p2), Minus(p1, p2))
        d == Dot(Minus(q, p1), Minus(p2, p1))
    IN  IF l2 = 0 THEN <<Dot(Minus(p1, q), Minus(p1, q)), 1>>
        ELSE IF d <= 0 THEN <<Dot(Minus(q, p1), Minus(q, p1)), 1>>
        ELSE IF d >= l2 THEN <<Dot(Minus(q, p2), Minus(q, p2)), 1>>
        ELSE <<Dot(Minus(q, p1), Minus(q, p1)) * l2 - d * d, l2>>

\* The test of is_minimal_path on one segment (the samples k and k + 1 of a
\* path whose positions are over the denominator den) and one prior end
\* pose <<x, y, yaw>>: distance below 0.5 * gridSeparation and angle
\* difference below 0.5 * deg2rad(360 / numberOfHeadings).
Overlaps(c, path, k, prior_end_point) ==
    LET p1 == <<path.xs[k], path.ys[k]>>
        p2 == <<path.xs[k + 1], path.ys[k + 1]>>
        q == <<path.den * prior_end_point[1], path.den * prior_end_point[2]>>
        dist == point_to_line_distance(p1, p2, q)
    IN  /\ 4 * dist[1]
             < path.den * path.den * c.gridSeparation * c.gridSeparation * dist[2]
        /\ 2 * c.numberOfHeadings * angle_difference(path.yaws[k], prior_end_point[3])
             < Deg2Rad(360000)

\* The number of segments the zip of is_minimal_path runs over.
SegmentCount(path) ==
    Max(0, Min(Min(Len(path.xs), Len(path.ys)), Len(path.yaws)) - 1)

\* A variant of is_minimal_path that looks at the first segment only.
is_minimal_first_segment(c, path, minimal_spanning_trajectories) ==
    ~ \E k \in 1..Min(1, SegmentCount(path)) :
        \E j \in DOMAIN minimal_spanning_trajectories :
            Overlaps(c, path, k, minimal_spanning_trajectories[j])

\* is_minimal_path
is_minimal_path(c, path, minimal_spanning_trajectories) ==
    ~ \E k \in 1..SegmentCount(path) :
        \E j \in DOMAIN minimal_spanning_trajectories :
            Overlaps(c, path, k, minimal_spanning_trajectories[j])

----------------------------------------------------------------------------
(* The curve generator (trajectory_generator.TrajectoryGenerator), which   *)
(* the generator of the lattice only calls.  A trajectory is a straight    *)
(* start, an arc and a straight end; its sampled path is modelled by the   *)
(* polygon the arc is inscribed in.  Which requests have a trajectory is   *)
(* left to the parameters of the generator in use.                         *)

\* An angle in millidegrees brought to (-180000, 180000].
NormDeg(h) ==
    LET m == h % 360000
    IN  IF m > 180000 THEN m - 360000 ELSE m

\* The lattice directions: the coprime vectors of a small box.
Directions ==
    {d \in (-3..3) \X (-3..3) : d # <<0, 0>> /\ Gcd(Abs(d[1]), Abs(d[2])) = 1}

\* The lattice direction of each lattice heading (in millidegrees).
DirTable ==
    [h \in {Rad2Deg(ArcTan2(d[2], d[1])) : d \in Directions} |->
        CHOOSE d \in Directions : Rad2Deg(ArcTan2(d[2], d[1])) = h]

\* The lattice direction of a heading in millidegrees.
DirOf(h) == DirTable[NormDeg(h)]

NoPath == [den |-> 1, xs |-> <<>>, ys |-> <<>>, yaws |-> <<>>]

\* The parameters of a trajectory: its radius and the lengths of its two
\* straight parts, in thousandths.
TrajectoryParameters(radius, start_to_arc_distance, arc_to_end_distance) ==
    [radius |-> radius, start_to_arc_distance |-> start_to_arc_distance,
     arc_to_end_distance |-> arc_to_end_distance]

NoTrajectory ==
    [found |-> FALSE, path |-> NoPath, parameters |-> TrajectoryParameters(0, 0, 0)]

RECURSIVE SqrtBetween(_, _, _)
\* The largest r of lo..hi with r * r <= n.
SqrtBetween(n, lo, hi) ==
    IF lo >= hi THEN lo
    ELSE LET mid == (lo + hi + 1) \div 2
         IN  IF mid * mid <= n THEN SqrtBetween(n, mid, hi)
             ELSE SqrtBetween(n, lo, mid - 1)

\* The largest square of a length that the curve generators take the root
\* of: that of a lattice direction, or of a vector between two points of
\* the levels up to max_level.
MaxSquare == 2 * Max(3, MaxLength + 1) * Max(3, MaxLength + 1)

\* The square roots, in thousandths, computed once.
SqrtTable == [n \in 0..MaxSquare |-> SqrtBetween(1000000 * n, 0, 46340)]

\* The length of the vector v of integers, in thousandths.
Norm(v) == SqrtTable[Dot(v, v)]

\* The sampled path through the corners pts (positions over den), corner k
\* with yaw yaws[k]: the corners alone at a step of gridSeparation, the
\* corners and the middles of the sides at a finer step.
SampledPath(c, den, pts, yaws, step) ==
    IF step[1] >= c.gridSeparation * step[2] \/ Len(pts) < 2
    THEN [den |-> den,
          xs |-> [k \in DOMAIN pts |-> pts[k][1]],
          ys |-> [k \in DOMAIN pts |-> pts[k][2]],
          yaws |-> yaws]
    ELSE LET n == 2 * Len(pts) - 1
             At(k) == IF k % 2 = 1 THEN 2 * pts[(k + 1) \div 2][1]
                      ELSE pts[k \div 2][1] + pts[k \div 2 + 1][1]
             Bt(k) == IF k % 2 = 1 THEN 2 * pts[(k + 1) \div 2][2]
                      ELSE pts[k \div 2][2] + pts[k \div 2 + 1][2]
         IN  [den |-> 2 * den,
              xs |-> [k \in 1..n |-> At(k)],
              ys |-> [k \in 1..n |-> Bt(k)],
              yaws |-> [k \in 1..n |-> yaws[(k + 1) \div 2]]]

\* generate_trajectory(target_point, start_angle, end_angle, step) of the
\* generator gen; step is the fraction <<numerator, denominator>>.
generate_trajectory(c, gen, target_point, start_angle, end_angle, step) ==
    LET d1 == DirOf(start_angle)
        d2 == DirOf(end_angle)
        det == Cross(d1, d2)
        a == Cross(target_point, d2) * (IF det < 0 THEN -1 ELSE 1)
        b == Cross(d1, target_point) * (IF det < 0 THEN -1 ELSE 1)
        yaw1 == Deg2Rad(start_angle)
        yaw2 == Deg2Rad(end_angle)
        Params(start_to_arc_distance, arc_to_end_distance) ==
            TrajectoryParameters(c.turningRadius, start_to_arc_distance,
                                 arc_to_end_distance)
        coarse == step[1] >= c.gridSeparation * step[2]
    IN  IF target_point = <<0, 0>>
        THEN \* a path of no length, when there is no turn either
             IF gen.origin /\ det = 0
             THEN [found |-> TRUE,
                   path |-> [den |-> 1, xs |-> <<0>>, ys |-> <<0>>, yaws |-> <<yaw1>>],
                   parameters |-> Params(0, 0)]
             ELSE NoTrajectory
        ELSE IF Abs(start_angle - end_angle) > gen.maxTurn THEN NoTrajectory
        ELSE IF det = 0
        THEN \* no turn: the straight line, when the target is on it
             IF Cross(d1, target_point) = 0 /\ Dot(d1, target_point) > 0
             THEN [found |-> TRUE,
                   path |-> SampledPath(c, 1, << <<0, 0>>, target_point >>,
                                        <<yaw1, yaw2>>, step),
                   parameters |-> Params(Norm(target_point), 0)]
             ELSE NoTrajectory
        ELSE IF coarse /\ ~gen.coarse THEN NoTrajectory
        ELSE IF gen.shape = "detour" /\ target_point[1] # target_point[2]
        THEN [found |-> TRUE,
              path |-> SampledPath(c, 1,
                                   << <<0, 0>>, <<target_point[2], target_point[1]>>,
                                      target_point >>,
                                   <<yaw1, yaw1, yaw2>>, step),
              parameters |-> Params(Norm(target_point),
                                    Norm(<<target_point[1] - target_point[2],
                                           target_point[2] - target_point[1]>>))]
        ELSE IF gen.shape \in {"chord", "detour"}
        THEN [found |-> TRUE,
              path |-> SampledPath(c, 1, << <<0, 0>>, target_point >>,
                                   <<yaw1, yaw2>>, step),
              parameters |-> Params(Norm(target_point), 0)]
        ELSE IF a > 0 /\ b > 0
        THEN [found |-> TRUE,
              path |-> SampledPath(c, Abs(det),
                                   << <<0, 0>>, <<a * d1[1], a * d1[2]>>,
                                      <<Abs(det) * target_point[1],
                                        Abs(det) * target_point[2]>> >>,
                                   <<yaw1, yaw2, yaw2>>, step),
              parameters |-> Params((a * Norm(d1)) \div Abs(det),
                                    (b * Norm(d2)) \div Abs(det))]
        ELSE NoTrajectory

\* The curve generators of the model: the shape of a turning path (through
\* the corner of its two straight lines, straight to the target, or by way
\* of the target mirrored in the diagonal, keeping the start heading until
\* the target), the largest turn that has a trajectory, whether a turning path has one at the
\* coarse step too, and whether the target (0, 0) has one (of a single
\* sample).
Generators ==
    {[shape |-> "corner", maxTurn |-> 90000, coarse |-> TRUE, origin |-> FALSE],
     [shape |-> "corner", maxTurn |-> 45000, coarse |-> TRUE, origin |-> TRUE],
     [shape |-> "corner", maxTurn |-> 90000, coarse |-> FALSE, origin |-> FALSE],
     [shape |-> "chord", maxTurn |-> 90000, coarse |-> TRUE, origin |-> TRUE],
     [shape |-> "chord", maxTurn |-> 0, coarse |-> TRUE, origin |-> FALSE],
     [shape |-> "detour", maxTurn |-> 90000, coarse |-> TRUE, origin |-> FALSE]}

----------------------------------------------------------------------------
(* Dictionaries.  A dict is the sequence of its <<key, value>> items in    *)
(* insertion order; a defaultdict(list) reads a missing key as [].         *)

DictKeys(d) == [k \in DOMAIN d |-> d[k][1]]

DictHas(d, key) == \E k \in DOMAIN d : d[k][1] = key

DictGet(d, key) ==
    IF DictHas(d, key) THEN d[CHOOSE k \in DOMAIN d : d[k][1] = key][2] ELSE <<>>

\* d[key] = value
DictSet(d, key, value) ==
    IF DictHas(d, key)
    THEN [k \in DOMAIN d |-> IF d[k][1] = key THEN <<key, value>> ELSE d[k]]
    ELSE Append(d, <<key, value>>)

\* d[key].append(x), d a defaultdict(list)
DictAppend(d, key, x) == DictSet(d, key, Append(DictGet(d, key), x))

RECURSIVE DictAppendAll(_, _)
\* d[x.start_angle].append(x) for each x of xs, in order.
DictAppendAll(d, xs) ==
    IF xs = <<>> THEN d
    ELSE DictAppendAll(DictAppend(d, Head(xs).start_angle, Head(xs)), Tail(xs))

----------------------------------------------------------------------------
(* The system test driver (test_system_node.py): its state at the start.   *)

\* NavTester.__init__: the node of the test, subscribed to /amcl_pose. Of a
\* pose only this is kept: whether it is within 0.50 of the goal of the
\* test ("near") or not ("far"). An attribute that was never assigned is
\* "unset".
NavTester ==
    [initial_pose_received |-> FALSE, current_pose |-> "unset",
     currentPose |-> "unset", goal_pose |-> "unset"]

\* main() is about to call test_all: pc is the place of the driver, result
\* the local of test_all, elapsed the seconds since the waiting loop the
\* driver is in began, attempt the goal attempt it is in; the history: the
\* result of test_InitialPose, the number of goal attempts started, and
\* whether an attempt reached the goal.
TestNotStarted ==
    [pc |-> "start", result |-> TRUE, elapsed |-> 0, attempt |-> "none",
     initial_pose |-> "pending", attempts |-> 0, reached |-> FALSE]

----------------------------------------------------------------------------
(* The search: generate_minimal_spanning_set.                              *)

NoRequest ==
    [target_point |-> <<0, 0>>, start_angle |-> 0, end_angle |-> 0, fine |-> FALSE,
     found |-> FALSE, accepted |-> FALSE, made |-> FALSE]

Init ==
    /\ config \in Configs
    /\ generator \in Generators
    /\ pc = IF Upper(config.motionModel) \in MotionModel THEN "constructed" ELSE "error"
    /\ headingIdx = 0
    /\ current_level = 0
    /\ pointIdx = 0
    /\ targetIdx = 0
    /\ single_quadrant_headings = <<>>
    /\ initial_headings = <<>>
    /\ target_headings = <<>>
    /\ positions = <<>>
    /\ trajectory = NoTrajectory
    /\ minimal_trajectory_set = <<>>
    /\ single_quadrant_spanning_set = <<>>
    /\ expandKey = 0
    /\ expandIdx = 0
    /\ all_trajectories = <<>>
    /\ request_count = 0
    /\ last_request = NoRequest
    /\ visits = <<>>
    /\ returned = <<>>
    /\ test_robot = NavTester
    /\ test = TestNotStarted
    /\ amcl_pose = <<>>

\* The start heading, the target point and the target heading the loops of
\* the search are at.
start_heading == initial_headings[headingIdx]

target_point == positions[pointIdx]

target_heading == target_headings[targetIdx]

\* The step of the search: 0.1 * gridSeparation.
FineStep == <<config.gridSeparation, 10>>

\* The step of the stored paths: gridSeparation.
CoarseStep == <<config.gridSeparation, 1>>

\* The trajectory the search requests where its loops are.
SearchTrajectory ==
    generate_trajectory(config, generator, target_point, start_heading,
                        target_heading, FineStep)

\* run() enters generate_minimal_spanning_set, which reaches its loop over
\* the start headings.
Begin ==
    /\ pc = "constructed"
    /\ single_quadrant_headings' = get_heading_discretization(config)
    /\ initial_headings' = InitialHeadingsTable[config.numberOfHeadings]
    /\ pc' = "heading"
    /\ headingIdx' = 1
    /\ UNCHANGED <<config, generator, trajectory, target_headings, positions, current_level, pointIdx, targetIdx,
                   minimal_trajectory_set, single_quadrant_spanning_set, expandKey,
                   expandIdx, all_trajectories, request_count, last_request, visits, returned, test_robot, test, amcl_pose>>

\* A variant of StartHeading that keeps the end poses recorded for the start
\* heading before.
StartHeadingKeepingEndPoses ==
    /\ pc = "heading"
    /\ headingIdx <= Len(initial_headings)
    /\ current_level' = start_level(config)
    /\ target_headings' = TargetHeadingsTable[config.numberOfHeadings][start_heading]
    /\ pc' = "level"
    /\ UNCHANGED <<config, generator, trajectory, single_quadrant_headings,
                   initial_headings, positions, headingIdx, pointIdx, targetIdx,
                   minimal_trajectory_set, single_quadrant_spanning_set, expandKey,
                   expandIdx, all_trajectories, request_count, last_request, visits,
                   returned, test_robot, test, amcl_pose>>

\* One more start heading: its set of end poses is empty, its level is
\* start_level.
StartHeading ==
    /\ pc = "heading"
    /\ headingIdx <= Len(initial_headings)
    /\ minimal_trajectory_set' = <<>>
    /\ current_level' = start_level(config)
    /\ target_headings' = TargetHeadingsTable[config.numberOfHeadings][start_heading]
    /\ pc' = "level"
    /\ UNCHANGED <<config, generator, trajectory, single_quadrant_headings, initial_headings, positions, headingIdx, pointIdx, targetIdx,
                   single_quadrant_spanning_set, expandKey, expandIdx,
                   all_trajectories, request_count, last_request, visits, returned, test_robot, test, amcl_pose>>

\* while current_level <= self.max_level: the positions of the level.
EnterLevel ==
    /\ pc = "level"
    /\ current_level <= max_level(config)
    /\ positions' = get_coords_at_level(config, current_level)
    /\ pointIdx' = 1
    /\ targetIdx' = 1
    /\ visits' = Append(visits, <<headingIdx, current_level>>)
    /\ pc' = "request"
    /\ UNCHANGED <<config, generator, trajectory, single_quadrant_headings, initial_headings, target_headings, headingIdx, current_level,
                   minimal_trajectory_set, single_quadrant_spanning_set, expandKey,
                   expandIdx, all_trajectories, request_count, last_request,
                   returned, test_robot, test, amcl_pose>>

\* The while loop ends: the next start heading.
LeaveHeading ==
    /\ pc = "level"
    /\ current_level > max_level(config)
    /\ headingIdx' = headingIdx + 1
    /\ pc' = "heading"
    /\ UNCHANGED <<config, generator, trajectory, single_quadrant_headings, initial_headings, target_headings, positions, current_level, pointIdx, targetIdx,
                   minimal_trajectory_set, single_quadrant_spanning_set, expandKey,
                   expandIdx, all_trajectories, request_count, last_request, visits, returned, test_robot, test, amcl_pose>>

\* The two for loops of a level move on after a request; after the last
\* request of the level, current_level += 1.
Advance ==
    IF targetIdx < Len(target_headings)
    THEN /\ targetIdx' = targetIdx + 1
         /\ pc' = "request"
         /\ UNCHANGED <<pointIdx, current_level>>
    ELSE IF pointIdx < Len(positions)
    THEN /\ targetIdx' = 1
         /\ pointIdx' = pointIdx + 1
         /\ pc' = "request"
         /\ UNCHANGED current_level
    ELSE /\ current_level' = current_level + 1
         /\ pc' = "level"
         /\ UNCHANGED <<pointIdx, targetIdx>>

\* trajectory = self.trajectory_generator.generate_trajectory(target_point,
\* start_heading, target_heading, 0.1 * self.grid_separation)
Request ==
    /\ pc = "request"
    /\ trajectory' = SearchTrajectory
    /\ request_count' = request_count + 1
    /\ last_request' =
          [target_point |-> target_point, start_angle |-> start_heading,
           end_angle |-> target_heading, fine |-> TRUE,
           found |-> SearchTrajectory.found, accepted |-> FALSE, made |-> TRUE]
    /\ pc' = "check"
    /\ UNCHANGED <<config, generator, single_quadrant_headings, initial_headings,
                   target_headings, positions, headingIdx, current_level, pointIdx,
                   targetIdx, minimal_trajectory_set, single_quadrant_spanning_set,
                   expandKey, expandIdx, all_trajectories, visits, returned, test_robot, test, amcl_pose>>

\* A variant of TrajectoryNone in which the missing trajectory stops the
\* search with an error.
TrajectoryNoneRaises ==
    /\ pc = "check"
    /\ ~trajectory.found
    /\ pc' = "error"
    /\ UNCHANGED <<config, generator, trajectory, single_quadrant_headings,
                   initial_headings, target_headings, positions, headingIdx,
                   current_level, pointIdx, targetIdx, minimal_trajectory_set,
                   single_quadrant_spanning_set, expandKey, expandIdx,
                   all_trajectories, request_count, last_request, visits, returned, test_robot, test, amcl_pose>>

\* if trajectory: is false, the curve generator had no trajectory.
TrajectoryNone ==
    /\ pc = "check"
    /\ ~trajectory.found
    /\ Advance
    /\ UNCHANGED <<config, generator, trajectory, single_quadrant_headings,
                   initial_headings, target_headings, positions, headingIdx,
                   minimal_trajectory_set, single_quadrant_spanning_set, expandKey,
                   expandIdx, all_trajectories, request_count, last_request, visits, returned, test_robot, test, amcl_pose>>

\* The trajectory overlaps an end pose recorded before: it is dropped.
TrajectoryOverlapping ==
    /\ pc = "check"
    /\ trajectory.found
    /\ ~is_minimal_path(config, trajectory.path, minimal_trajectory_set)
    /\ Advance
    /\ UNCHANGED <<config, generator, trajectory, single_quadrant_headings,
                   initial_headings, target_headings, positions, headingIdx,
                   minimal_trajectory_set, single_quadrant_spanning_set, expandKey,
                   expandIdx, all_trajectories, request_count, last_request, visits, returned, test_robot, test, amcl_pose>>

\* A variant of TrajectoryAccepted that does not record the end pose.
TrajectoryAcceptedUnrecorded ==
    /\ pc = "check"
    /\ trajectory.found
    /\ is_minimal_path(config, trajectory.path, minimal_trajectory_set)
    /\ single_quadrant_spanning_set' =
          DictAppend(single_quadrant_spanning_set, start_heading,
                     <<target_point, target_heading>>)
    /\ last_request' = [last_request EXCEPT !.accepted = TRUE]
    /\ Advance
    /\ UNCHANGED <<config, generator, trajectory, single_quadrant_headings,
                   initial_headings, target_headings, positions, headingIdx,
                   minimal_trajectory_set, expandKey, expandIdx, all_trajectories,
                   request_count, visits, returned, test_robot, test, amcl_pose>>

\* The trajectory is accepted: its end pose is recorded.
TrajectoryAccepted ==
    /\ pc = "check"
    /\ trajectory.found
    /\ is_minimal_path(config, trajectory.path, minimal_trajectory_set)
    /\ minimal_trajectory_set' =
          Append(minimal_trajectory_set,
                 <<target_point[1], target_point[2], Deg2Rad(target_heading)>>)
    /\ single_quadrant_spanning_set' =
          DictAppend(single_quadrant_spanning_set, start_heading,
                     <<target_point, target_heading>>)
    /\ last_request' = [last_request EXCEPT !.accepted = TRUE]
    /\ Advance
    /\ UNCHANGED <<config, generator, trajectory, single_quadrant_headings,
                   initial_headings, target_headings, positions, headingIdx,
                   expandKey, expandIdx, all_trajectories, request_count, visits, returned, test_robot, test, amcl_pose>>

----------------------------------------------------------------------------
(* The expansion: create_complete_minimal_spanning_set.                    *)

\* The first item at or after item i of key number k that exists: the next
\* step of the two for loops over the single-quadrant set; <<0, 0>> at the
\* end of the loops.
RECURSIVE NextItem(_, _, _)
NextItem(d, k, i) ==
    IF k > Len(d) THEN <<0, 0>>
    ELSE IF i <= Len(d[k][2]) THEN <<k, i>>
    ELSE NextItem(d, k + 1, 1)

\* A variant of end_points_for_90 that copies the items of start heading 0
\* as they are.
end_points_for_90_copied(d) == DictGet(d, 0)

\* end_points_for_90: the accepted items of start heading 0, transposed.
end_points_for_90(d) ==
    LET zero == DictGet(d, 0)
    IN  [k \in DOMAIN zero |->
            << <<zero[k][1][2], zero[k][1][1]>>, 90000 - zero[k][2] >>]

\* The search is over; the trajectories of 0 degrees are copied to 90
\* degrees (reading the key 0.0 of the defaultdict creates it).
Transpose ==
    /\ pc = "heading"
    /\ headingIdx > Len(initial_headings)
    /\ LET read == IF DictHas(single_quadrant_spanning_set, 0)
                   THEN single_quadrant_spanning_set
                   ELSE Append(single_quadrant_spanning_set, <<0, <<>> >>)
           set == DictSet(read, 90000, end_points_for_90(read))
           next == NextItem(set, 1, 1)
       IN  /\ single_quadrant_spanning_set' = set
           /\ expandKey' = next[1]
           /\ expandIdx' = next[2]
           /\ pc' = IF next = <<0, 0>> THEN "motion" ELSE "expand"
    /\ UNCHANGED <<config, generator, trajectory, single_quadrant_headings, initial_headings, target_headings, positions, headingIdx, current_level, pointIdx, targetIdx,
                   minimal_trajectory_set, all_trajectories, request_count,
                   last_request, visits, returned, test_robot, test, amcl_pose>>

\* The item the loops of the expansion are at.
expand_start_angle == single_quadrant_spanning_set[expandKey][1]

expand_end_point == single_quadrant_spanning_set[expandKey][2][expandIdx][1]

expand_end_angle == single_quadrant_spanning_set[expandKey][2][expandIdx][2]

ExpandTrajectory ==
    generate_trajectory(config, generator, expand_end_point, expand_start_angle,
                        expand_end_angle, CoarseStep)

\* The yaws of a quadrant: arctan2 over consecutive points, then the last.
QuadrantYaws(xs, ys, last) ==
    [k \in 1..Max(Len(xs), 1) |->
        IF k < Len(xs) THEN ArcTan2(ys[k + 1] - ys[k], xs[k + 1] - xs[k]) ELSE last]

\* list(zip(xs, ys, yaws))
Zip3(xs, ys, yaws) ==
    [k \in 1..Min(Min(Len(xs), Len(ys)), Len(yaws)) |-> <<xs[k], ys[k], yaws[k]>>]

\* A variant of Negated that leaves the coordinates as they are.
NotNegated(xs) == xs

Negated(xs) == [k \in DOMAIN xs |-> -xs[k]]

\* A primitive: the tuple (start angle, end angle, radius, trajectory
\* length, arc length, straight length, poses), the positions of the poses
\* over the denominator den.
Primitive(start_angle, end_angle, info, poses) ==
    [start_angle |-> start_angle, end_angle |-> end_angle, radius |-> info.radius,
     trajectory_length |-> info.trajectory_length, arc_length |-> info.arc_length,
     straight_length |-> info.straight_length, den |-> info.den, poses |-> poses]

\* trajectory_info of a trajectory of the curve generator, with the
\* denominator of its positions.
trajectory_info(start_angle, end_angle, traj) ==
    LET arc == arc_length(traj.parameters.radius, start_angle, end_angle)
    IN  [radius |-> traj.parameters.radius,
         trajectory_length |-> arc + traj.parameters.start_to_arc_distance
                                 + traj.parameters.arc_to_end_distance,
         arc_length |-> arc,
         straight_length |-> traj.parameters.start_to_arc_distance
                               + traj.parameters.arc_to_end_distance,
         den |-> traj.path.den]

\* The primitives that one item of the single-quadrant set gives, in the
\* order in which they are appended.
Quadrants(start_angle, end_angle, traj) ==
    LET xs == traj.path.xs
        ys == traj.path.ys
        flipped_xs == Negated(xs)
        flipped_ys == Negated(ys)
        yaws_quad1 == QuadrantYaws(xs, ys, Deg2Rad(end_angle))
        yaws_quad2 == QuadrantYaws(flipped_xs, ys, Pi - Deg2Rad(end_angle))
        yaws_quad3 == QuadrantYaws(flipped_xs, flipped_ys, -Pi + Deg2Rad(end_angle))
        yaws_quad4 == QuadrantYaws(xs, flipped_ys, -Deg2Rad(end_angle))
        info == trajectory_info(start_angle, end_angle, traj)
        q1 == Zip3(xs, ys, yaws_quad1)
        q2 == Zip3(flipped_xs, ys, yaws_quad2)
        q3 == Zip3(flipped_xs, flipped_ys, yaws_quad3)
        q4 == Zip3(xs, flipped_ys, yaws_quad4)
    IN  IF start_angle = 0 /\ end_angle = 0
        THEN << Primitive(0, 0, info, q1),
                Primitive(-180000, -180000, info, q2) >>
        ELSE IF start_angle = 90000 /\ end_angle = 90000
        THEN << Primitive(start_angle, end_angle, info, q1),
                Primitive(-start_angle, -end_angle, info, q4) >>
        ELSE IF start_angle = 0
        THEN << Primitive(start_angle, end_angle, info, q1),
                Primitive(-180000, 180000 - end_angle, info, q2),
                Primitive(-180000, end_angle - 180000, info, q3),
                Primitive(start_angle, -end_angle, info, q4) >>
        ELSE IF end_angle = 0
        THEN << Primitive(start_angle, end_angle, info, q1),
                Primitive(180000 - start_angle, -180000, info, q2),
                Primitive(start_angle - 180000, -180000, info, q3),
                Primitive(-start_angle, end_angle, info, q4) >>
        ELSE << Primitive(start_angle, end_angle, info, q1),
                Primitive(180000 - start_angle, 180000 - end_angle, info, q2),
                Primitive(start_angle - 180000, end_angle - 180000, info, q3),
                Primitive(-start_angle, -end_angle, info, q4) >>

\* trajectory = self.trajectory_generator.generate_trajectory(end_point,
\* start_angle, end_angle, self.grid_separation)
ExpandRequest ==
    /\ pc = "expand"
    /\ trajectory' = ExpandTrajectory
    /\ request_count' = request_count + 1
    /\ last_request' =
          [target_point |-> expand_end_point, start_angle |-> expand_start_angle,
           end_angle |-> expand_end_angle, fine |-> FALSE,
           found |-> ExpandTrajectory.found, accepted |-> FALSE, made |-> TRUE]
    /\ pc' = "quadrants"
    /\ UNCHANGED <<config, generator, single_quadrant_headings, initial_headings,
                   target_headings, positions, headingIdx, current_level, pointIdx,
                   targetIdx, minimal_trajectory_set, single_quadrant_spanning_set,
                   expandKey, expandIdx, all_trajectories, visits, returned, test_robot, test, amcl_pose>>

\* One item of the single-quadrant set: its primitives in the quadrants,
\* from its path at the coarse step.
Expand ==
    /\ pc = "quadrants"
    /\ trajectory.found
    /\ all_trajectories' =
          DictAppendAll(all_trajectories,
                        Quadrants(expand_start_angle, expand_end_angle, trajectory))
    /\ LET next == NextItem(single_quadrant_spanning_set, expandKey, expandIdx + 1)
       IN  /\ expandKey' = next[1]
           /\ expandIdx' = next[2]
           /\ pc' = IF next = <<0, 0>> THEN "motion" ELSE "expand"
    /\ UNCHANGED <<config, generator, trajectory, single_quadrant_headings,
                   initial_headings, target_headings, positions, headingIdx,
                   current_level, pointIdx, targetIdx, minimal_trajectory_set,
                   single_quadrant_spanning_set, request_count, last_request, visits, returned, test_robot, test, amcl_pose>>

\* The curve generator had no trajectory at the coarse step: trajectory is
\* None, and trajectory.path raises AttributeError.
ExpandFails ==
    /\ pc = "quadrants"
    /\ ~trajectory.found
    /\ pc' = "error"
    /\ UNCHANGED <<config, generator, trajectory, single_quadrant_headings,
                   initial_headings, target_headings, positions, headingIdx,
                   current_level, pointIdx, targetIdx, minimal_trajectory_set,
                   single_quadrant_spanning_set, expandKey, expandIdx,
                   all_trajectories, request_count, last_request, visits, returned, test_robot, test, amcl_pose>>

----------------------------------------------------------------------------
(* The motion model: handle_motion_model.                                  *)

\* sorted(spanning_set.keys(), key=spanning_set.get): the lists are compared,
\* and two lists differ at the start angle of their first primitive.
all_angles(spanning_set) ==
    Values(SortKeyed([k \in DOMAIN spanning_set |->
        << <<spanning_set[k][2][1].start_angle, 0>>, spanning_set[k][1] >>]))

\* turn_left and turn_right of the angle number idx.
InPlaceTurns(angles, idx) ==
    LET start_angle == angles[idx]
        prev_angle == angles[IF idx - 1 >= 1 THEN idx - 1 ELSE Len(angles)]
        next_angle == angles[IF idx + 1 <= Len(angles) THEN idx + 1 ELSE 1]
        Turn(end_angle) ==
            [start_angle |-> start_angle, end_angle |-> end_angle, radius |-> 0,
             trajectory_length |-> 0, arc_length |-> 0, straight_length |-> 0,
             den |-> 1,
             poses |-> << <<0, 0, start_angle>>, <<0, 0, end_angle>> >>]
    IN  << Turn(prev_angle), Turn(next_angle) >>

RECURSIVE AddTurnsFrom(_, _, _)
AddTurnsFrom(spanning_set, angles, idx) ==
    IF idx > Len(angles) THEN spanning_set
    ELSE AddTurnsFrom(DictAppendAll(spanning_set, InPlaceTurns(angles, idx)),
                      angles, idx + 1)

\* add_in_place_turns
add_in_place_turns(spanning_set) ==
    AddTurnsFrom(spanning_set, all_angles(spanning_set), 1)

\* A variant of HorizontalSteps that rounds down.
HorizontalStepsRoundedDown(c) ==
    LET l == compute_min_trajectory_length(c)
    IN  l[1] \div (l[2] * c.gridSeparation)

\* steps of add_horizontal_motions
HorizontalSteps(c) ==
    LET l == compute_min_trajectory_length(c)
    IN  RoundDiv(l[1], l[2] * c.gridSeparation)

\* left_motion and right_motion of a start angle: steps poses from the
\* origin along the direction of start_angle + 90 and against it. The
\* positions are in units of min_trajectory_length / (den * the length of
\* that lattice direction).
HorizontalMotions(c, start_angle) ==
    LET steps == HorizontalSteps(c)
        d == DirOf(start_angle + 90000)
        Motion(sign) ==
            [start_angle |-> start_angle, end_angle |-> start_angle, radius |-> 0,
             trajectory_length |-> min_trajectory_length(c), arc_length |-> 0,
             straight_length |-> min_trajectory_length(c),
             den |-> Max(steps - 1, 1),
             poses |-> [k \in 1..steps |->
                 <<sign * (k - 1) * d[1], sign * (k - 1) * d[2], Deg2Rad(start_angle)>>]]
    IN  << Motion(1), Motion(-1) >>

RECURSIVE AddMotionsFrom(_, _, _)
AddMotionsFrom(c, spanning_set, k) ==
    IF k > Len(spanning_set) THEN spanning_set
    ELSE AddMotionsFrom(c,
             DictAppendAll(spanning_set, HorizontalMotions(c, spanning_set[k][1])),
             k + 1)

\* add_horizontal_motions
add_horizontal_motions(c, spanning_set) == AddMotionsFrom(c, spanning_set, 1)

Returned ==
    UNCHANGED <<config, generator, trajectory, single_quadrant_headings, initial_headings, target_headings, positions, headingIdx, current_level, pointIdx, targetIdx,
                minimal_trajectory_set, single_quadrant_spanning_set, expandKey,
                expandIdx, request_count, last_request, visits, returned, test_robot, test, amcl_pose>>

HandleAckermann ==
    /\ pc = "motion"
    /\ Upper(config.motionModel) = "ACKERMANN"
    /\ pc' = "done"
    /\ UNCHANGED all_trajectories
    /\ Returned

HandleDiff ==
    /\ pc = "motion"
    /\ Upper(config.motionModel) = "DIFF"
    /\ all_trajectories' = add_in_place_turns(all_trajectories)
    /\ pc' = "done"
    /\ Returned

HandleOmni ==
    /\ pc = "motion"
    /\ Upper(config.motionModel) = "OMNI"
    /\ all_trajectories' =
          add_horizontal_motions(config, add_in_place_turns(all_trajectories))
    /\ pc' = "done"
    /\ Returned

----------------------------------------------------------------------------

Next ==
    \/ Begin
    \/ StartHeading
    \/ EnterLevel
    \/ LeaveHeading
    \/ Request
    \/ TrajectoryNone
    \/ TrajectoryOverlapping
    \/ TrajectoryAccepted
    \/ Transpose
    \/ ExpandRequest
    \/ Expand
    \/ ExpandFails
    \/ HandleAckermann
    \/ HandleDiff
    \/ HandleOmni

Spec == Init /\ [][Next]_vars

\* run() is called at most MaxRuns times on one LatticeGenerator.
MaxRuns == 2

\* How the call of run() that has ended has ended: with the set returned,
\* or with an error raised.
Outcome ==
    IF pc = "done" THEN [raised |-> FALSE, value |-> all_trajectories]
    ELSE [raised |-> TRUE, value |-> <<>>]

\* A variant of RunAgain in which the primitive set of the call before is
\* still there when run() is called again.
RunAgainOnTheOldSet ==
    /\ pc = "done" \/ (pc = "error" /\ headingIdx > 0)
    /\ Len(returned) < MaxRuns - 1
    /\ returned' = Append(returned, Outcome)
    /\ pc' = "constructed"
    /\ headingIdx' = 0
    /\ current_level' = 0
    /\ pointIdx' = 0
    /\ targetIdx' = 0
    /\ single_quadrant_headings' = <<>>
    /\ initial_headings' = <<>>
    /\ target_headings' = <<>>
    /\ positions' = <<>>
    /\ trajectory' = NoTrajectory
    /\ minimal_trajectory_set' = <<>>
    /\ single_quadrant_spanning_set' = <<>>
    /\ expandKey' = 0
    /\ expandIdx' = 0
    /\ request_count' = 0
    /\ last_request' = NoRequest
    /\ visits' = <<>>
    /\ UNCHANGED <<config, generator, all_trajectories, test_robot, test, amcl_pose>>

\* run() has ended, by returning or by raising in the search or the
\* expansion, and is called again on the same LatticeGenerator: the object
\* is as __init__ left it, and the locals of the call are new.
RunAgain ==
    /\ pc = "done" \/ (pc = "error" /\ headingIdx > 0)
    /\ Len(returned) < MaxRuns - 1
    /\ returned' = Append(returned, Outcome)
    /\ pc' = "constructed"
    /\ headingIdx' = 0
    /\ current_level' = 0
    /\ pointIdx' = 0
    /\ targetIdx' = 0
    /\ single_quadrant_headings' = <<>>
    /\ initial_headings' = <<>>
    /\ target_headings' = <<>>
    /\ positions' = <<>>
    /\ trajectory' = NoTrajectory
    /\ minimal_trajectory_set' = <<>>
    /\ single_quadrant_spanning_set' = <<>>
    /\ expandKey' = 0
    /\ expandIdx' = 0
    /\ request_count' = 0
    /\ last_request' = NoRequest
    /\ visits' = <<>>
    /\ all_trajectories' = <<>>
    /\ UNCHANGED <<config, generator, test_robot, test, amcl_pose>>

\* run() called again and again on one LatticeGenerator, for the
\* configurations of one grid separation and one turning radius.
RerunInit == Init /\ config.gridSeparation = 1 /\ config.turningRadius = 1

RerunNext == Next \/ RunAgain

RerunSpec == RerunInit /\ [][RerunNext]_vars

\* The search alone: generate_minimal_spanning_set up to its return. The
\* search reads neither the motion model nor what the curve generator does
\* at the coarse step, so one of each is taken.
SearchInit == Init /\ config.motionModel = "ackermann" /\ generator.coarse

SearchNext ==
    \/ Begin
    \/ StartHeading
    \/ EnterLevel
    \/ LeaveHeading
    \/ Request
    \/ TrajectoryNone
    \/ TrajectoryOverlapping
    \/ TrajectoryAccepted

\* The calls of the curve generator return and nothing else blocks: a step
\* of the search that can be taken is taken.
SearchSpec == SearchInit /\ [][SearchNext]_vars /\ WF_vars(SearchNext)

----------------------------------------------------------------------------
(* What the claims speak of.                                               *)

\* generate_minimal_spanning_set has computed the heading discretization.
SearchBegun == headingIdx > 0

\* The loop over the start headings has ended.
SearchOver == SearchBegun /\ headingIdx > Len(initial_headings)

\* generate_minimal_spanning_set has its single-quadrant set and is about to
\* hand it to create_complete_minimal_spanning_set.
SearchReturns == SearchOver /\ pc = "heading"

\* create_complete_minimal_spanning_set has returned all_trajectories.
ExpansionReturns == pc = "motion"

\* run() has returned the primitive set.
RunReturned == pc = "done"

\* The path (at the step of the search) of an accepted item <<point, heading>>
\* of a start heading.
FinePathOf(start, item) ==
    generate_trajectory(config, generator, item[1], start, item[2], FineStep).path

\* The end pose recorded for an accepted item.
EndPoseOf(item) == <<item[1][1], item[1][2], Deg2Rad(item[2])>>

\* The items of the single-quadrant set that the search accepted (the key
\* 90 degrees is not searched: its items are copies).
SearchedKeys ==
    {k \in DOMAIN single_quadrant_spanning_set :
        single_quadrant_spanning_set[k][1] \in Range(initial_headings)}

\* Sample k of a path is within 0.5 * gridSeparation and half a heading step
\* of an end pose.
PoseNear(path, k, pose) ==
    LET dx == path.xs[k] - path.den * pose[1]
        dy == path.ys[k] - path.den * pose[2]
        turn == (path.yaws[k] - pose[3]) % (2 * Pi)
    IN  /\ 4 * (dx * dx + dy * dy)
             < path.den * path.den * config.gridSeparation * config.gridSeparation
        /\ 2 * config.numberOfHeadings * Min(turn, 2 * Pi - turn) < 2 * Pi

\* Two heading labels in millidegrees name one heading.
SameHeading(a, b) == (a - b) % 360000 = 0

\* Two angles in radians name one direction.
SameAngle(a, b) == (a - b) % (2 * Pi) = 0

\* The start-heading keys and the start and end labels of the primitives of
\* all_trajectories.
OutputLabels ==
    {all_trajectories[k][1] : k \in DOMAIN all_trajectories}
    \cup UNION {{p.start_angle, p.end_angle} :
                   p \in UNION {Range(all_trajectories[k][2]) :
                                   k \in DOMAIN all_trajectories}}

\* Every start heading of the search has an accepted primitive.
EveryStartHeadingAccepted ==
    \A k \in DOMAIN initial_headings :
        DictGet(single_quadrant_spanning_set, initial_headings[k]) # <<>>

----------------------------------------------------------------------------
(* C1.                                                                     *)

----------------------------------------------------------------------------
(* C2.                                                                     *)

\* C2 as claimed (for the runs in which every start heading of the search
\* has an accepted primitive): after run(), every heading returned by
\* get_heading_discretization is a key of the output and its list holds at
\* least one primitive.
C2_EveryHeadingIsKey ==
    (RunReturned /\ EveryStartHeadingAccepted) =>
        \A k \in DOMAIN single_quadrant_headings :
            /\ DictHas(all_trajectories, single_quadrant_headings[k])
            /\ DictGet(all_trajectories, single_quadrant_headings[k]) # <<>>

\* C2, the runs that show it: run() has returned, every start heading of
\* the search had an accepted primitive, the discretization holds the
\* heading 180 degrees, and the output has the key -180 and no key 180.
C2_HalfTurnKeyMissing ==
    /\ RunReturned
    /\ EveryStartHeadingAccepted
    /\ 180000 \in Range(single_quadrant_headings)
    /\ DictHas(all_trajectories, -180000)
    /\ ~DictHas(all_trajectories, 180000)

----------------------------------------------------------------------------
(* C3.                                                                     *)

\* The yaw of a pose mirrored in x (sx = -1), in y (sy = -1) or in both.
MirroredYaw(yaw, sx, sy) ==
    IF sx = -1 /\ sy = 1 THEN Pi - yaw
    ELSE IF sx = -1 /\ sy = -1 THEN yaw + Pi
    ELSE IF sx = 1 /\ sy = -1 THEN -yaw
    ELSE yaw

\* The poses of q are the poses of p mirrored.
IsMirrored(p, q, sx, sy) ==
    /\ q.den = p.den
    /\ Len(q.poses) = Len(p.poses)
    /\ \A n \in DOMAIN p.poses :
          /\ q.poses[n][1] = sx * p.poses[n][1]
          /\ q.poses[n][2] = sy * p.poses[n][2]
          /\ SameAngle(q.poses[n][3], MirroredYaw(p.poses[n][3], sx, sy))

\* The output holds a primitive labelled (start, end), up to whole turns,
\* whose poses are those of p mirrored.
HasMirrored(p, start, end, sx, sy) ==
    \E k \in DOMAIN all_trajectories :
        /\ SameHeading(all_trajectories[k][1], start)
        /\ \E n \in DOMAIN all_trajectories[k][2] :
              LET q == all_trajectories[k][2][n]
              IN  /\ SameHeading(q.start_angle, start)
                  /\ SameHeading(q.end_angle, end)
                  /\ IsMirrored(p, q, sx, sy)

\* The primitives of the output that are the item <<point, end heading>> of
\* a start heading itself: labelled as the item, along the path the curve
\* generator gives for it at the step gridSeparation.
OwnPrimitives(start, item) ==
    LET path == generate_trajectory(config, generator, item[1], start, item[2],
                                    CoarseStep).path
    IN  {p \in Range(DictGet(all_trajectories, start)) :
            /\ p.start_angle = start
            /\ p.end_angle = item[2]
            /\ p.den = path.den
            /\ Len(p.poses) = Len(path.xs)
            /\ \A n \in DOMAIN p.poses :
                  p.poses[n][1] = path.xs[n] /\ p.poses[n][2] = path.ys[n]}

\* C3: when create_complete_minimal_spanning_set returns, every item of the
\* single-quadrant set (those the search accepted and those transposed to 90
\* degrees), with start heading t and end heading f, is in the result with
\* its path P, and the result holds a primitive labelled (180 - t, 180 - f)
\* along P mirrored in x, one labelled (t - 180, f - 180) along P mirrored
\* in x and y, and one labelled (-t, -f) along P mirrored in y, labels and
\* yaws compared up to whole turns; t = f = 0 and t = f = 90 included.
C3_Symmetric ==
    ExpansionReturns =>
        \A k \in DOMAIN single_quadrant_spanning_set :
            LET start == single_quadrant_spanning_set[k][1]
                items == single_quadrant_spanning_set[k][2]
            IN  \A i \in DOMAIN items :
                    LET end == items[i][2]
                        own == OwnPrimitives(start, items[i])
                    IN  /\ own # {}
                        /\ \A p \in own :
                              /\ HasMirrored(p, 180000 - start, 180000 - end, -1, 1)
                              /\ HasMirrored(p, start - 180000, end - 180000, -1, -1)
                              /\ HasMirrored(p, -start, -end, 1, -1)

\* C3, witness: the expansion has returned a set that holds a primitive of
\* start heading 0 that turns, a straight one along each axis, and one of a
\* start heading strictly between.
C3_Witness ==
    /\ ExpansionReturns
    /\ \E p \in Range(DictGet(all_trajectories, 0)) : p.end_angle \notin {0, -180000}
    /\ \E p \in Range(DictGet(all_trajectories, 0)) :
          p.end_angle = 0 /\ Len(p.poses) > 1
    /\ \E p \in Range(DictGet(all_trajectories, 90000)) :
          p.end_angle = 90000 /\ Len(p.poses) > 1
    /\ \E k \in DOMAIN all_trajectories :
          /\ all_trajectories[k][1] \notin {0, 90000, -90000, 180000, -180000}
          /\ \E p \in Range(all_trajectories[k][2]) :
                p.end_angle # p.start_angle /\ p.poses[Len(p.poses)][2] # 0

----------------------------------------------------------------------------
(* C4.                                                                     *)

----------------------------------------------------------------------------
(* C5.                                                                     *)

\* The square of the distance from q to the segment p1 p2, as a fraction:
\* to the foot of the perpendicular where it falls inside the segment, to
\* the nearer end otherwise.
SegmentDistance2(p1, p2, q) ==
    LET l2 == Dot(Minus(p2, p1), Minus(p2, p1))
        t == Dot(Minus(q, p1), Minus(p2, p1))
        e1 == Dot(Minus(q, p1), Minus(q, p1))
        e2 == Dot(Minus(q, p2), Minus(q, p2))
    IN  IF 0 < t /\ t < l2
        THEN <<Cross(Minus(p2, p1), Minus(q, p1)) * Cross(Minus(p2, p1), Minus(q, p1)), l2>>
        ELSE <<Min(e1, e2), 1>>

\* The angular distance of two angles in radians, in 0..Pi.
AngularDistance(a, b) ==
    LET turn == (a - b) % (2 * Pi)
    IN  Min(turn, 2 * Pi - turn)

\* There are a pair of consecutive samples of the trajectory requested and
\* an end pose recorded before such that the end pose is nearer than
\* 0.5 * gridSeparation to the segment and the yaw of the segment (of its
\* first sample) is nearer than half a heading step to that of the end pose.
SomeSegmentNearAnEndPose ==
    \E n \in 1..(Len(trajectory.path.xs) - 1) :
        \E j \in DOMAIN minimal_trajectory_set :
            LET den == trajectory.path.den
                pose == minimal_trajectory_set[j]
                dist == SegmentDistance2(
                            <<trajectory.path.xs[n], trajectory.path.ys[n]>>,
                            <<trajectory.path.xs[n + 1], trajectory.path.ys[n + 1]>>,
                            <<den * pose[1], den * pose[2]>>)
            IN  /\ 4 * dist[1]
                     < dist[2] * den * den * config.gridSeparation * config.gridSeparation
                /\ 2 * config.numberOfHeadings
                     * AngularDistance(trajectory.path.yaws[n], pose[3]) < 2 * Pi

\* C5: a trajectory of the search is refused by is_minimal_path exactly when
\* some segment of it is near an end pose recorded before, in distance
\* (strictly below 0.5 * gridSeparation) and in angle (strictly below half a
\* heading step); it is accepted otherwise, in particular when no end pose
\* is recorded and when the path has fewer than two samples.
C5_RefusedExactlyWhenNear ==
    [][(pc = "check" /\ trajectory.found) =>
          /\ last_request'.accepted <=> ~SomeSegmentNearAnEndPose
          /\ (minimal_trajectory_set = <<>> \/ Len(trajectory.path.xs) < 2)
                => last_request'.accepted]_vars

\* C5, witness: the search has just refused a trajectory of two samples or
\* more, with end poses recorded before.
C5_Witness ==
    /\ pc \in {"request", "level"}
    /\ last_request.made
    /\ last_request.fine
    /\ last_request.found
    /\ ~last_request.accepted
    /\ minimal_trajectory_set # <<>>
    /\ Len(trajectory.path.xs) >= 2

----------------------------------------------------------------------------
(* C6.                                                                     *)

----------------------------------------------------------------------------
(* C7.                                                                     *)

\* C7 as claimed, and with the label -180 admitted besides: after run(),
\* every start-heading key and every end label is a heading in degrees
\* from -180 to 180.
C7_LabelsInRange ==
    RunReturned => \A h \in OutputLabels : -180000 <= h /\ h <= 180000

\* C7, the runs that show it: run() has returned a primitive mirrored in x
\* whose end label is 180 - f for a negative end heading f of the search.
C7_LabelAboveHalfTurn ==
    /\ RunReturned
    /\ \E k \in SearchedKeys :
          \E i \in DOMAIN single_quadrant_spanning_set[k][2] :
              LET start == single_quadrant_spanning_set[k][1]
                  end == single_quadrant_spanning_set[k][2][i][2]
              IN  /\ start # 0
                  /\ end < 0
                  /\ \E p \in Range(DictGet(all_trajectories, 180000 - start)) :
                        p.end_angle = 180000 - end /\ p.end_angle > 180000

----------------------------------------------------------------------------
(* C8.                                                                     *)

\* The heading list is symmetric about both axes and holds no heading twice.
SymmetricAndDuplicateFree(hs) ==
    /\ \A k \in DOMAIN hs :
          /\ NormDeg(-hs[k]) \in Range(hs)
          /\ NormDeg(180000 - hs[k]) \in Range(hs)
    /\ \A k, n \in DOMAIN hs : k # n => hs[k] # hs[n]

----------------------------------------------------------------------------
(* C9.                                                                     *)

\* The visits of the search, in order: each start heading of the list
\* initial_headings in turn, each at the levels from start_level on, one
\* more each time, and none beyond maxLength / gridSeparation rounded.
VisitsInOrder ==
    \A k \in DOMAIN visits :
        /\ visits[k][1] \in DOMAIN initial_headings
        /\ 2 * config.gridSeparation * visits[k][2]
              <= 2 * config.maxLength + config.gridSeparation
        /\ IF k = 1 \/ visits[k - 1][1] # visits[k][1]
           THEN /\ visits[k][2] = start_level(config)
                /\ k > 1 => visits[k][1] > visits[k - 1][1]
           ELSE visits[k][2] = visits[k - 1][2] + 1

\* No level is visited, and no trajectory requested, when start_level is
\* above max_level.
NoRequestAboveMaxLevel ==
    (start_level(config) > max_level(config) /\ ~SearchOver) =>
        (visits = <<>> /\ request_count = 0)

\* Every entry of initial_headings has been visited at every level from
\* start_level to max_level.
EveryLevelVisited ==
    \A k \in DOMAIN initial_headings :
        \A level \in start_level(config)..max_level(config) :
            <<k, level>> \in Range(visits)

----------------------------------------------------------------------------
(* C10.                                                                    *)

\* The place of the loops of the search, as a triple that grows with them.
Cursor == <<current_level, pointIdx, targetIdx>>

CursorLess(a, b) ==
    \/ a[1] < b[1]
    \/ a[1] = b[1] /\ a[2] < b[2]
    \/ a[1] = b[1] /\ a[2] = b[2] /\ a[3] < b[3]

\* C10: when the curve generator has no trajectory for a request of the
\* search, the candidate is not accepted, no end pose is recorded, no error
\* is raised, and the loops move to the next candidate.
C10_NoTrajectoryIsSkipped ==
    [][(pc = "check" /\ ~trajectory.found) =>
          /\ ~last_request'.accepted
          /\ minimal_trajectory_set' = minimal_trajectory_set
          /\ single_quadrant_spanning_set' = single_quadrant_spanning_set
          /\ pc' \in {"request", "level"}
          /\ CursorLess(Cursor, Cursor')
          /\ headingIdx' = headingIdx]_vars

\* C10, witness: the search has just gone on after a request for which the
\* curve generator had no trajectory, with end poses recorded before.
C10_Witness ==
    /\ pc \in {"request", "level"}
    /\ last_request.made
    /\ last_request.fine
    /\ ~last_request.found
    /\ ~trajectory.found
    /\ minimal_trajectory_set # <<>>

----------------------------------------------------------------------------
(* C11.                                                                    *)

\* The list that a primitive set holds for a heading: that of the key that
\* names the heading, up to whole turns; empty when there is no such key.
ListOfHeading(d, h) ==
    IF \E k \in DOMAIN d : SameHeading(d[k][1], h)
    THEN d[CHOOSE k \in DOMAIN d : SameHeading(d[k][1], h)][2]
    ELSE <<>>

\* The cyclic predecessor and successor of h among the headings hs, ordered
\* by their numeric value.
CyclicPredecessor(h, hs) ==
    IF \E x \in hs : x < h
    THEN CHOOSE x \in hs : x < h /\ \A y \in hs : y < h => y <= x
    ELSE CHOOSE x \in hs : \A y \in hs : y <= x

CyclicSuccessor(h, hs) ==
    IF \E x \in hs : x > h
    THEN CHOOSE x \in hs : x > h /\ \A y \in hs : y > h => x <= y
    ELSE CHOOSE x \in hs : \A y \in hs : x <= y

\* p is an in-place turn from one heading to another: no radius, no length,
\* two poses at the origin.
IsInPlaceTurn(p, from, to) ==
    /\ SameHeading(p.start_angle, from)
    /\ SameHeading(p.end_angle, to)
    /\ p.radius = 0
    /\ p.trajectory_length = 0
    /\ p.arc_length = 0
    /\ p.straight_length = 0
    /\ Len(p.poses) = 2
    /\ \A n \in DOMAIN p.poses : p.poses[n][1] = 0 /\ p.poses[n][2] = 0

\* C11 as claimed: with the differential motion model, handle_motion_model
\* turns the set that ACKERMANN returns as it is into one in which, for
\* every heading of get_heading_discretization, the list holds the same
\* primitives in the same order and then exactly two more, both in-place
\* turns, one to the cyclic predecessor and one to the cyclic successor of
\* the heading among the headings ordered by value (headings compared up to
\* whole turns).
C11_TwoTurnsForEveryHeading ==
    [][(pc = "motion" /\ Upper(config.motionModel) = "DIFF") =>
          \A h \in Range(single_quadrant_headings) :
              LET hs == Range(single_quadrant_headings)
                  ackermann == ListOfHeading(all_trajectories, h)
                  diff == ListOfHeading(all_trajectories', h)
              IN  /\ Len(diff) = Len(ackermann) + 2
                  /\ SubSeq(diff, 1, Len(ackermann)) = ackermann
                  /\ \E i, j \in {Len(diff) - 1, Len(diff)} :
                        /\ i # j
                        /\ IsInPlaceTurn(diff[i], h, CyclicPredecessor(h, hs))
                        /\ IsInPlaceTurn(diff[j], h, CyclicSuccessor(h, hs))]_vars

\* C11, the runs that show it: run() has returned with the differential
\* motion model and at least 8 headings; the search accepted nothing for one
\* of the headings, which has no list and no in-place turn in the output,
\* and the in-place turns of the heading 0 lead to two keys of the output
\* of which one is not a neighbour of 0 among the headings.
C11_HeadingWithoutTurns ==
    /\ RunReturned
    /\ Upper(config.motionModel) = "DIFF"
    /\ config.numberOfHeadings >= 8
    /\ \E h \in Range(single_quadrant_headings) :
          ListOfHeading(all_trajectories, h) = <<>>
    /\ LET zero == DictGet(all_trajectories, 0)
           hs == Range(single_quadrant_headings)
       IN  /\ Len(zero) >= 2
           /\ IsInPlaceTurn(zero[Len(zero)], 0, zero[Len(zero)].end_angle)
           /\ zero[Len(zero)].end_angle # CyclicSuccessor(0, hs)

----------------------------------------------------------------------------
(* C12.                                                                    *)

\* p is a lateral primitive of the heading h: it starts and ends at h, its
\* total and its straight length are min_trajectory_length (2 pi
\* turningRadius / numberOfHeadings), it has no arc and no radius, and it
\* has round(min_trajectory_length / gridSeparation) poses, all of yaw h.
IsLateral(p, h) ==
    /\ p.start_angle = h
    /\ p.end_angle = h
    /\ p.radius = 0
    /\ p.arc_length = 0
    /\ p.trajectory_length
          = (2000 * PiNum * config.turningRadius) \div (PiDen * config.numberOfHeadings)
    /\ p.straight_length = p.trajectory_length
    /\ Len(p.poses) = RoundDiv(2 * PiNum * config.turningRadius,
                               PiDen * config.numberOfHeadings * config.gridSeparation)
    /\ \A n \in DOMAIN p.poses : p.poses[n][3] = Deg2Rad(h)

\* The poses of q are at the positions of p mirrored in the origin.
IsPointMirror(p, q) ==
    /\ q.den = p.den
    /\ Len(q.poses) = Len(p.poses)
    /\ \A n \in DOMAIN p.poses :
          /\ q.poses[n][1] = -p.poses[n][1]
          /\ q.poses[n][2] = -p.poses[n][2]

----------------------------------------------------------------------------
(* C13.                                                                    *)

\* C13: when the motion model of the configuration is none of ACKERMANN,
\* DIFF and OMNI, the construction has failed with an error: there is no
\* generator to run, no trajectory is ever requested, no primitive set is
\* built or returned, and nothing is tried again.
C13_UnsupportedMotionModelFails ==
    (Upper(config.motionModel) \notin {"ACKERMANN", "DIFF", "OMNI"}) =>
        /\ pc = "error"
        /\ ~SearchBegun
        /\ request_count = 0
        /\ all_trajectories = <<>>

\* C13, witness: the configuration names a motion model that is none of the
\* three, and the construction has failed.
C13_Witness ==
    /\ config.motionModel = "bicycle"
    /\ pc = "error"
    /\ request_count = 0

----------------------------------------------------------------------------
(* C14.                                                                    *)

\* The number of headings is that of a compass: a positive multiple of 8.
IsCompass(n) == n >= 8 /\ n % 8 = 0

\* The configuration is valid: positive lengths, a compass of headings.
IsValid(c) ==
    /\ c.gridSeparation > 0
    /\ c.turningRadius > 0
    /\ c.maxLength > 0
    /\ IsCompass(c.numberOfHeadings)

\* C14 as claimed: when the configuration is not valid, the generator ends
\* in an error before the search begins: it requests no trajectory and
\* returns no primitive set.
C14_InvalidIsRejected ==
    ~IsValid(config) =>
        /\ request_count = 0
        /\ ~SearchBegun
        /\ ~RunReturned

\* C14, the runs that show it: with 12 headings, which are not a compass,
\* run() has requested trajectories and has returned a set of primitives
\* (for the 8 headings of the compass below).
C14_InvalidIsRun ==
    /\ config.numberOfHeadings = 12
    /\ Upper(config.motionModel) \in MotionModel
    /\ RunReturned
    /\ request_count > 0
    /\ all_trajectories # <<>>
    /\ Len(single_quadrant_headings) = 8

----------------------------------------------------------------------------
(* C15.                                                                    *)

----------------------------------------------------------------------------
(* C16.                                                                    *)

\* The primitives of the output.
OutputPrimitives ==
    UNION {Range(all_trajectories[k][2]) : k \in DOMAIN all_trajectories}

\* 2 pi radius |end label - start label| / 360 of a primitive, in
\* thousandths.
ArcOfOwnLabels(p) ==
    (2 * PiNum * p.radius * Abs(p.end_angle - p.start_angle)) \div (PiDen * 360)

\* C16 as claimed: after run(), the arc length of every primitive of the
\* output is 2 pi radius |d| / 360, d the difference between the end label
\* and the start label of that primitive.
C16_ArcLengthOfOwnLabels ==
    RunReturned => \A p \in OutputPrimitives : p.arc_length = ArcOfOwnLabels(p)

\* C16, the runs that show it: run() has returned, for an accepted primitive
\* from the heading 0 to a heading f above 0, its mirror image in x labelled
\* (-180, 180 - f), whose labels differ by 360 - f and whose arc length is
\* that of a turn by f.
C16_ArcLengthOfQuadrantOne ==
    /\ RunReturned
    /\ \E p \in Range(DictGet(all_trajectories, -180000)) :
          LET f == 180000 - p.end_angle
          IN  /\ p.start_angle = -180000
              /\ 0 < f /\ f <= 90000
              /\ p.radius > 0
              /\ p.arc_length = (2 * PiNum * p.radius * f) \div (PiDen * 360)
              /\ p.arc_length < ArcOfOwnLabels(p)

----------------------------------------------------------------------------
(* C17.                                                                    *)

\* C17 as claimed: every primitive that create_complete_minimal_spanning_set
\* returns (those of the search, in the four quadrants) has a total length
\* of at most maxLength.
C17_TotalLengthWithinMaxLength ==
    ExpansionReturns =>
        \A p \in OutputPrimitives : p.trajectory_length <= 1000 * config.maxLength

\* C17, the runs that show it: the search accepted the straight primitive
\* of 45 degrees to the corner (max_level * gridSeparation, max_level *
\* gridSeparation) of the last level, with max_level * gridSeparation =
\* maxLength; its total length is above maxLength.
C17_CornerBeyondMaxLength ==
    /\ ExpansionReturns
    /\ max_level(config) * config.gridSeparation = config.maxLength
    /\ \E p \in Range(DictGet(all_trajectories, 45000)) :
          /\ p.end_angle = 45000
          /\ p.arc_length = 0
          /\ p.poses[Len(p.poses)][1] = p.den * config.maxLength
          /\ p.poses[Len(p.poses)][2] = p.den * config.maxLength
          /\ p.trajectory_length > 1000 * config.maxLength

----------------------------------------------------------------------------
(* C18.                                                                    *)

\* The search is in the pass of a start heading.
InPass == pc \in {"level", "request", "check"}

\* The search has just accepted a candidate.
JustAccepted ==
    /\ pc \in {"level", "request"}
    /\ last_request.made
    /\ last_request.fine
    /\ last_request.accepted

\* The items accepted for the start heading of the pass, in all its passes.
AcceptedOfStartHeading == DictGet(single_quadrant_spanning_set, start_heading)

\* The items accepted in the pass so far: as many as end poses are recorded,
\* the last of the list of the start heading.
AcceptedInPass ==
    SubSeq(AcceptedOfStartHeading,
           Len(AcceptedOfStartHeading) - Len(minimal_trajectory_set) + 1,
           Len(AcceptedOfStartHeading))

\* No segment of the path (at the step of the search) of an item of the
\* list is within 0.5 * gridSeparation and half a heading step of the end
\* pose of an item before it in the list.
NoLaterOverEarlier(items) ==
    \A i \in DOMAIN items :
        LET path == FinePathOf(start_heading, items[i])
        IN  \A j \in 1..(i - 1) :
                \A n \in 1..SegmentCount(path) :
                    ~Overlaps(config, path, n, EndPoseOf(items[j]))

\* Every list of the single-quadrant set is kept, with what it held, by the
\* step.
ListsGrow ==
    /\ Len(single_quadrant_spanning_set') >= Len(single_quadrant_spanning_set)
    /\ \A k \in DOMAIN single_quadrant_spanning_set :
          LET old == single_quadrant_spanning_set[k]
              new == single_quadrant_spanning_set'[k]
          IN  /\ new[1] = old[1]
              /\ Len(new[2]) >= Len(old[2])
              /\ SubSeq(new[2], 1, Len(old[2])) = old[2]

\* A step that accepts a candidate for the start heading records one more
\* end pose, that of the candidate.
AcceptRecords ==
    LET old == AcceptedOfStartHeading
        new == DictGet(single_quadrant_spanning_set', start_heading)
    IN  (pc = "check" /\ new # old) =>
            /\ Len(minimal_trajectory_set') = Len(minimal_trajectory_set) + 1
            /\ minimal_trajectory_set'[Len(minimal_trajectory_set')]
                  = EndPoseOf(new[Len(new)])

----------------------------------------------------------------------------
(* C19.                                                                    *)

RECURSIVE CandidatesFrom(_, _, _)
\* The candidates <<target point, target heading>> of a pass from a level
\* on, in the order of the loops: the levels up to max_level, the points of
\* each level, the target headings for each point.
CandidatesFrom(c, level, targets) ==
    IF level > max_level(c) THEN <<>>
    ELSE LET points == get_coords_at_level(c, level)
         IN  [n \in 1..(Len(points) * Len(targets)) |->
                 << points[((n - 1) \div Len(targets)) + 1],
                    targets[((n - 1) % Len(targets)) + 1] >>]
             \o CandidatesFrom(c, level + 1, targets)

RECURSIVE AcceptFrom(_, _, _, _, _, _)
\* The items accepted from candidate k on, after those accepted before it:
\* a candidate is accepted when the curve generator has a trajectory for it
\* that overlaps none of the end poses of the items accepted before it.
AcceptFrom(c, gen, start, candidates, k, accepted) ==
    IF k > Len(candidates) THEN accepted
    ELSE LET found == generate_trajectory(c, gen, candidates[k][1], start,
                                          candidates[k][2], <<c.gridSeparation, 10>>)
             poses == [j \in DOMAIN accepted |-> EndPoseOf(accepted[j])]
         IN  IF found.found /\ is_minimal_path(c, found.path, poses)
             THEN AcceptFrom(c, gen, start, candidates, k + 1,
                             Append(accepted, candidates[k]))
             ELSE AcceptFrom(c, gen, start, candidates, k + 1, accepted)

\* What the search accepts for a start heading searched alone: a function
\* of the configuration, the curve generator and the start heading.
SearchAlone(c, gen, start) ==
    AcceptFrom(c, gen, start,
               CandidatesFrom(c, start_level(c),
                              TargetHeadings(get_heading_discretization(c), start)),
               1, <<>>)

\* The pass of a start heading is over: the while loop over the levels has
\* ended.
PassOver == pc = "level" /\ current_level > max_level(config)

\* The step leaves the lists of the start headings other than that of the
\* pass as they are.
OtherListsKept ==
    \A k \in DOMAIN single_quadrant_spanning_set :
        single_quadrant_spanning_set[k][1] # start_heading =>
            single_quadrant_spanning_set'[k] = single_quadrant_spanning_set[k]

\* C19: what the search accepts in the pass of a start heading is what it
\* would accept for that start heading searched alone, in the same order,
\* whatever was accepted for the start headings before it; the steps of the
\* pass leave the lists of the other start headings as they are; and the end
\* poses recorded are emptied when the pass of a start heading begins.
C19_Independent ==
    /\ [](PassOver => AcceptedInPass = SearchAlone(config, generator, start_heading))
    /\ [][InPass => OtherListsKept]_vars
    /\ [][(pc = "heading" /\ pc' = "level") => minimal_trajectory_set' = <<>>]_vars

\* C19, witness: the pass of a start heading other than the first is over
\* and has accepted two items or more, one of them along a path that turns,
\* after the passes before it accepted items too.
C19_Witness ==
    /\ PassOver
    /\ headingIdx >= 2
    /\ start_heading # 0
    /\ Len(AcceptedInPass) >= 2
    /\ \E i \in DOMAIN AcceptedInPass : AcceptedInPass[i][2] # start_heading
    /\ Len(single_quadrant_spanning_set) >= 2
    /\ \A k \in DOMAIN single_quadrant_spanning_set :
          Len(single_quadrant_spanning_set[k][2]) >= 2

----------------------------------------------------------------------------
(* C20.                                                                    *)

\* The angular distance of two headings in millidegrees, in millidegrees.
HeadingDistance(a, b) == Rad2Deg(AngularDistance(Deg2Rad(a), Deg2Rad(b)))

\* C20: in the pass of every start heading s (a heading in [0, 90)), the
\* list target_headings holds the headings of the discretization whose
\* angular distance to s is at most 90 degrees and no others, one entry for
\* each entry of the discretization; the distance to s never decreases
\* along the list and, of two neighbours at the same distance, the larger
\* angle comes first; the first entry is s itself, and the first request
\* for every target point is the one with the end heading s.
C20_TargetHeadingsByProximity ==
    InPass =>
        LET s == start_heading
            hs == single_quadrant_headings
            t == target_headings
        IN  /\ 0 <= s /\ s < 90000
            /\ Range(t) = {h \in Range(hs) : HeadingDistance(h, s) <= 90000}
            /\ Len(t) = Cardinality({k \in DOMAIN hs : HeadingDistance(hs[k], s) <= 90000})
            /\ \A k \in 1..(Len(t) - 1) :
                  \/ HeadingDistance(t[k], s) < HeadingDistance(t[k + 1], s)
                  \/ /\ HeadingDistance(t[k], s) = HeadingDistance(t[k + 1], s)
                     /\ t[k] >= t[k + 1]
            /\ t[1] = s
            /\ (pc = "check" /\ targetIdx = 1) =>
                  (last_request.fine /\ last_request.end_angle = s
                   /\ last_request.target_point = target_point)

\* C20, witness: for the start heading 45 degrees of 16 headings, the search
\* has requested the second end heading for a target point: 63.435 degrees,
\* which is as far from 45 as 26.565 and the larger of the two.
C20_Witness ==
    /\ pc = "check"
    /\ config.numberOfHeadings = 16
    /\ start_heading = 45000
    /\ targetIdx = 2
    /\ last_request.end_angle = 63435
    /\ target_headings[3] = 26565
    /\ -45000 \in Range(target_headings)
    /\ 135000 \in Range(target_headings)
    /\ 153435 \notin Range(target_headings)

----------------------------------------------------------------------------
(* C21.                                                                    *)

\* The step is the copy of the trajectories of 0 degrees to 90 degrees, at
\* the start of create_complete_minimal_spanning_set.
IsTranspose == pc = "heading" /\ pc' \in {"expand", "motion"}

\* The list is the list of the transposes of the items of another: one for
\* each, in the same order, the end point (x, y) and the end heading e made
\* the end point (y, x) and the end heading 90 - e.
TransposesOf(list, of) ==
    /\ Len(list) = Len(of)
    /\ \A k \in DOMAIN of :
          /\ list[k][1][1] = of[k][1][2]
          /\ list[k][1][2] = of[k][1][1]
          /\ list[k][2] = 90000 - of[k][2]

\* The step leaves the list of every start heading other than 90 degrees
\* as it is.
ListsBut90Kept ==
    \A k \in DOMAIN single_quadrant_spanning_set :
        LET key == single_quadrant_spanning_set[k][1]
        IN  key # 90000 =>
                /\ DictHas(single_quadrant_spanning_set', key)
                /\ DictGet(single_quadrant_spanning_set', key)
                      = single_quadrant_spanning_set[k][2]

\* The step that begins the expansion gives the start heading 90 the
\* transposes of the items of the start heading 0, and no other start
\* heading anything.
TransposeGives90 ==
    IsTranspose =>
        /\ DictHas(single_quadrant_spanning_set', 90000)
        /\ TransposesOf(DictGet(single_quadrant_spanning_set', 90000),
                        DictGet(single_quadrant_spanning_set, 0))
        /\ ListsBut90Kept
        /\ \A k \in DOMAIN single_quadrant_spanning_set' :
              single_quadrant_spanning_set'[k][1] \notin {0, 90000}
                  => DictHas(single_quadrant_spanning_set,
                             single_quadrant_spanning_set'[k][1])

\* The steps of the expansion and of the motion model leave the
\* single-quadrant set as it is.
SingleQuadrantSetKept ==
    pc \in {"expand", "quadrants", "motion"}
        => single_quadrant_spanning_set' = single_quadrant_spanning_set

\* The start heading of 90 degrees is not searched: it is not among the
\* start headings, no request of the search starts at it, and it has no
\* list while the search runs.
NinetyNotSearched ==
    /\ \A k \in DOMAIN initial_headings : initial_headings[k] # 90000
    /\ (last_request.made /\ last_request.fine)
          => last_request.start_angle # 90000
    /\ pc \in {"heading", "level", "request", "check"}
          => ~DictHas(single_quadrant_spanning_set, 90000)

\* C21: the start heading of 90 degrees is not among the start headings of
\* the search, no request of the search starts at it and it has no list
\* while the search runs; the step that begins the expansion gives it the
\* transposes of the items accepted for the start heading 0, one for each
\* in the same order, (x, y) and e made (y, x) and 90 - e, and gives no
\* other start heading anything; the steps after it leave the lists as they
\* are.
C21_NinetyIsTransposeOfZero ==
    /\ []NinetyNotSearched
    /\ [][TransposeGives90]_vars
    /\ [][SingleQuadrantSetKept]_vars

\* C21, witness: the expansion has returned; the start heading 0 has two
\* accepted items or more, one of them off the diagonal with an end heading
\* other than 0, the start heading 90 has their transposes, and another
\* start heading has a list of its own.
C21_Witness ==
    /\ ExpansionReturns
    /\ Len(DictGet(single_quadrant_spanning_set, 0)) >= 2
    /\ \E k \in DOMAIN DictGet(single_quadrant_spanning_set, 0) :
          LET item == DictGet(single_quadrant_spanning_set, 0)[k]
          IN  /\ item[1][1] # item[1][2]
              /\ item[2] # 0
              /\ DictGet(single_quadrant_spanning_set, 90000)[k]
                    = << <<item[1][2], item[1][1]>>, 90000 - item[2] >>
    /\ \E k \in DOMAIN single_quadrant_spanning_set :
          /\ single_quadrant_spanning_set[k][1] \notin {0, 90000}
          /\ single_quadrant_spanning_set[k][2] # <<>>

----------------------------------------------------------------------------
(* C22.                                                                    *)

\* run() has raised an error after a request for which the curve generator
\* had no trajectory.
FailedOnNone ==
    /\ pc = "error"
    /\ last_request.made
    /\ ~last_request.found

\* C22 as claimed: run() never ends with an error after a request for which
\* the curve generator returned no trajectory.
C22_NoneNeverFailsRun == ~FailedOnNone

\* C22, the runs that show it: the search accepted an item at the step of
\* the search, the curve generator has no trajectory for the same item at
\* the coarse step of the expansion (an item whose end heading is not its
\* start heading), and run() has ended with an error.
C22_CoarseNoneFailsRun ==
    /\ FailedOnNone
    /\ ~last_request.fine
    /\ ~trajectory.found
    /\ \E k \in DOMAIN DictGet(single_quadrant_spanning_set,
                                last_request.start_angle) :
          DictGet(single_quadrant_spanning_set, last_request.start_angle)[k]
              = <<last_request.target_point, last_request.end_angle>>
    /\ generate_trajectory(config, generator, last_request.target_point,
                           last_request.start_angle, last_request.end_angle,
                           <<config.gridSeparation, 10>>).found
    /\ last_request.end_angle # last_request.start_angle

----------------------------------------------------------------------------
(* C23.                                                                    *)

\* The search is at a candidate of a level: the positions of the level are
\* computed and a request is about to be made or has just been made.
AtCandidate == pc \in {"request", "check"}

\* The positions are the ring of a level: 2 * level + 1 distinct points
\* with no negative coordinate, at Chebyshev distance level * gridSeparation
\* from the origin.
IsRing(points, level, sep) ==
    /\ Len(points) = 2 * level + 1
    /\ Cardinality(Range(points)) = 2 * level + 1
    /\ \A k \in DOMAIN points :
          /\ points[k][1] >= 0
          /\ points[k][2] >= 0
          /\ Max(points[k][1], points[k][2]) = level * sep

\* C23 as claimed: at every candidate of the search the level is 1 or more,
\* the positions of the level are its ring, and the target point handed to
\* the curve generator is a point of the ring and not the origin (0, 0).
C23_NoRequestAtOrigin ==
    AtCandidate =>
        /\ current_level >= 1
        /\ IsRing(positions, current_level, config.gridSeparation)
        /\ target_point \in Range(positions)
        /\ target_point # <<0, 0>>

\* C23, the runs that show it: the minimal trajectory length is below
\* gridSeparation, start_level is 0, the positions of the level 0 are the
\* corner (0, 0) alone, and the search has requested a trajectory to it.
C23_RequestAtOrigin ==
    /\ pc = "check"
    /\ min_trajectory_length(config) < 1000 * config.gridSeparation
    /\ start_level(config) = 0
    /\ current_level = 0
    /\ positions = << <<0, 0>> >>
    /\ last_request.made
    /\ last_request.fine
    /\ last_request.target_point = <<0, 0>>

----------------------------------------------------------------------------
(* C24.                                                                    *)

\* The yaw of the last pose of a primitive.
LastYaw(p) == p.poses[Len(p.poses)][3]

\* C24 as claimed: after run(), under every motion model, every pose of
\* every primitive of the output has a position and a yaw, and the yaw of
\* the last pose of every primitive that has a pose is its end-heading
\* label in radians, the same representative of the angle.
C24_LastYawIsEndHeading ==
    RunReturned =>
        \A p \in OutputPrimitives :
            /\ \A n \in DOMAIN p.poses : Len(p.poses[n]) = 3
            /\ p.poses # <<>> => LastYaw(p) = Deg2Rad(p.end_angle)

\* C24, the runs that show it: run() has returned a set with an in-place
\* turn to a heading other than 0 whose last pose carries the heading in
\* degrees, and with the mirror image of the straight primitive of heading
\* 0, labelled -180, whose last pose has the yaw pi.
C24_YawOfAnotherAngle ==
    /\ RunReturned
    /\ \E p \in OutputPrimitives :
          /\ p.radius = 0
          /\ p.trajectory_length = 0
          /\ Len(p.poses) = 2
          /\ p.end_angle # 0
          /\ LastYaw(p) = p.end_angle
          /\ LastYaw(p) # Deg2Rad(p.end_angle)
    /\ \E p \in OutputPrimitives :
          /\ p.start_angle = -180000
          /\ p.end_angle = -180000
          /\ p.straight_length > 0
          /\ Len(p.poses) >= 2
          /\ LastYaw(p) = Pi
          /\ Deg2Rad(p.end_angle) = -Pi

----------------------------------------------------------------------------
(* The system test driver (test_system_node.py): test_all.                 *)

\* The seconds test_all gives test_InitialPose.
InitialPoseTimeout == 10

\* The seconds test_RobotMovesToGoal gives reachesGoal.
GoalTimeout == 30

\* The seconds a call of rclpy.spin_once without a timeout takes at most in
\* the model (reachesGoal calls it with timeout_sec=1).
MaxSpin == 2

\* The number of messages in flight on /amcl_pose at most.
MaxQueue == 2

\* The state of the lattice generator, which the test driver leaves alone.
lattice ==
    <<config, generator, trajectory, pc, headingIdx, current_level, pointIdx,
      targetIdx, single_quadrant_headings, initial_headings, target_headings,
      positions, minimal_trajectory_set, single_quadrant_spanning_set, expandKey,
      expandIdx, all_trajectories, request_count, last_request, visits, returned>>

\* NavTester.poseCallback
poseCallback(robot, msg) ==
    [robot EXCEPT !.current_pose = msg, !.initial_pose_received = TRUE]

\* NavTester.setInitialPose: the pose is kept as initial_pose and as
\* currentPose (not current_pose) and published on initialpose.
setInitialPose(robot) == [robot EXCEPT !.currentPose = "initial"]

\* NavTester.setGoalPose
setGoalPose(robot) == [robot EXCEPT !.goal_pose = "goal"]

\* The localization publishes the pose of the robot on /amcl_pose; the
\* robot, which starts far from the goal, can only have come near it after
\* the goal was published.
AmclPublishes ==
    /\ test.pc \notin {"return", "raised"}
    /\ Len(amcl_pose) < MaxQueue
    /\ \E msg \in {"far", "near"} :
          /\ msg = "near" => test_robot.goal_pose = "goal"
          /\ amcl_pose' = Append(amcl_pose, msg)
    /\ UNCHANGED <<test_robot, test>>
    /\ UNCHANGED lattice

\* test_InitialPose up to its waiting loop.
TestInitialPoseBegins ==
    /\ test.pc = "start"
    /\ test.result
    /\ test_robot' = setInitialPose([test_robot EXCEPT !.initial_pose_received = FALSE])
    /\ test' = [test EXCEPT !.pc = "wait_pose", !.elapsed = 0]
    /\ UNCHANGED amcl_pose
    /\ UNCHANGED lattice

\* rclpy.spin_once in the loop of test_InitialPose: one message is handed to
\* poseCallback.
InitialPoseSpinReceives ==
    /\ test.pc = "wait_pose"
    /\ ~test_robot.initial_pose_received
    /\ test.elapsed < InitialPoseTimeout
    /\ amcl_pose # <<>>
    /\ test_robot' = poseCallback(test_robot, Head(amcl_pose))
    /\ amcl_pose' = Tail(amcl_pose)
    /\ \E d \in 0..MaxSpin :
          test' = [test EXCEPT !.elapsed = Min(test.elapsed + d, InitialPoseTimeout)]
    /\ UNCHANGED lattice

\* rclpy.spin_once in the loop of test_InitialPose returns with no message
\* handed to poseCallback.
InitialPoseSpinIdle ==
    /\ test.pc = "wait_pose"
    /\ ~test_robot.initial_pose_received
    /\ test.elapsed < InitialPoseTimeout
    /\ \E d \in 0..MaxSpin :
          test' = [test EXCEPT !.elapsed = Min(test.elapsed + d, InitialPoseTimeout)]
    /\ UNCHANGED <<test_robot, amcl_pose>>
    /\ UNCHANGED lattice

\* The loop of test_InitialPose ends; test_all keeps what it returns.
TestInitialPoseReturns ==
    /\ test.pc = "wait_pose"
    /\ test_robot.initial_pose_received \/ test.elapsed >= InitialPoseTimeout
    /\ test' = [test EXCEPT !.pc = "sim_time",
                            !.result = test_robot.initial_pose_received,
                            !.initial_pose =
                                IF test_robot.initial_pose_received
                                THEN "passed" ELSE "failed"]
    /\ UNCHANGED <<test_robot, amcl_pose>>
    /\ UNCHANGED lattice

\* test_robot.setSimTime()
SetSimTime ==
    /\ test.pc = "sim_time"
    /\ test' = [test EXCEPT !.pc = "first"]
    /\ UNCHANGED <<test_robot, amcl_pose>>
    /\ UNCHANGED lattice

\* test_RobotMovesToGoal up to the loop of reachesGoal.
test_RobotMovesToGoal(attempt) ==
    /\ test_robot' = setGoalPose(test_robot)
    /\ test' = [test EXCEPT !.pc = "spin", !.elapsed = 0, !.attempt = attempt,
                            !.attempts = test.attempts + 1]
    /\ UNCHANGED amcl_pose
    /\ UNCHANGED lattice

\* if (result): result = test_RobotMovesToGoal(test_robot)
FirstAttempt ==
    /\ test.pc = "first"
    /\ test.result
    /\ test_RobotMovesToGoal("first")

\* if (result): the result is False, the first call is skipped.
FirstAttemptSkipped ==
    /\ test.pc = "first"
    /\ ~test.result
    /\ test' = [test EXCEPT !.pc = "retry"]
    /\ UNCHANGED <<test_robot, amcl_pose>>
    /\ UNCHANGED lattice

\* if (not result): result = test_RobotMovesToGoal(test_robot)
Retry ==
    /\ test.pc = "retry"
    /\ ~test.result
    /\ test_RobotMovesToGoal("retry")

\* if (not result): the result is True; return result.
NoRetry ==
    /\ test.pc = "retry"
    /\ test.result
    /\ test' = [test EXCEPT !.pc = "return"]
    /\ UNCHANGED <<test_robot, amcl_pose>>
    /\ UNCHANGED lattice

\* rclpy.spin_once(self, timeout_sec=1) in reachesGoal: one message is
\* handed to poseCallback.
GoalSpinReceives ==
    /\ test.pc = "spin"
    /\ amcl_pose # <<>>
    /\ test_robot' = poseCallback(test_robot, Head(amcl_pose))
    /\ amcl_pose' = Tail(amcl_pose)
    /\ \E d \in 0..1 :
          test' = [test EXCEPT !.pc = "distance",
                               !.elapsed = Min(test.elapsed + d, GoalTimeout + 1)]
    /\ UNCHANGED lattice

\* rclpy.spin_once(self, timeout_sec=1) in reachesGoal returns with no
\* message handed to poseCallback.
GoalSpinIdle ==
    /\ test.pc = "spin"
    /\ \E d \in 0..1 :
          test' = [test EXCEPT !.pc = "distance",
                               !.elapsed = Min(test.elapsed + d, GoalTimeout + 1)]
    /\ UNCHANGED <<test_robot, amcl_pose>>
    /\ UNCHANGED lattice

\* Where test_all goes on when the goal attempt it is in returns.
AfterAttempt == IF test.attempt = "first" THEN "retry" ELSE "return"

\* distanceFromGoal reads self.current_pose, which was never assigned:
\* AttributeError.
DistanceRaises ==
    /\ test.pc = "distance"
    /\ test_robot.current_pose = "unset"
    /\ test' = [test EXCEPT !.pc = "raised"]
    /\ UNCHANGED <<test_robot, amcl_pose>>
    /\ UNCHANGED lattice

\* if self.distanceFromGoal() < 0.50: return True
GoalReached ==
    /\ test.pc = "distance"
    /\ test_robot.current_pose = "near"
    /\ test' = [test EXCEPT !.pc = AfterAttempt, !.result = TRUE, !.reached = TRUE]
    /\ UNCHANGED <<test_robot, amcl_pose>>
    /\ UNCHANGED lattice

\* elif timeout is not None: if (time.time() - start_time) > timeout:
\* return False
GoalTimedOut ==
    /\ test.pc = "distance"
    /\ test_robot.current_pose = "far"
    /\ test.elapsed > GoalTimeout
    /\ test' = [test EXCEPT !.pc = AfterAttempt, !.result = FALSE]
    /\ UNCHANGED <<test_robot, amcl_pose>>
    /\ UNCHANGED lattice

\* The goal is not reached and the time is not over: once more round the
\* loop of reachesGoal.
GoalNotYet ==
    /\ test.pc = "distance"
    /\ test_robot.current_pose = "far"
    /\ test.elapsed <= GoalTimeout
    /\ test' = [test EXCEPT !.pc = "spin"]
    /\ UNCHANGED <<test_robot, amcl_pose>>
    /\ UNCHANGED lattice

\* The system test: the lattice generator is not run.
TestInit ==
    /\ Init
    /\ config = [numberOfHeadings |-> 16, gridSeparation |-> 1, turningRadius |-> 1,
                 maxLength |-> 1, motionModel |-> "ackermann"]
    /\ generator = [shape |-> "corner", maxTurn |-> 90000, coarse |-> TRUE,
                    origin |-> FALSE]

TestNext ==
    \/ AmclPublishes
    \/ TestInitialPoseBegins
    \/ InitialPoseSpinReceives
    \/ InitialPoseSpinIdle
    \/ TestInitialPoseReturns
    \/ SetSimTime
    \/ FirstAttempt
    \/ FirstAttemptSkipped
    \/ Retry
    \/ NoRetry
    \/ GoalSpinReceives
    \/ GoalSpinIdle
    \/ DistanceRaises
    \/ GoalReached
    \/ GoalTimedOut
    \/ GoalNotYet

TestSpec == TestInit /\ [][TestNext]_vars

----------------------------------------------------------------------------
(* C25.                                                                    *)

\* C25 as claimed: test_all starts a goal attempt only after test_InitialPose
\* has succeeded, starts two goal attempts at most, returns True only if
\* test_InitialPose succeeded and a goal attempt reached the goal, and
\* distanceFromGoal is not evaluated before poseCallback has received a
\* pose.
C25_GoalOnlyAfterInitialPose ==
    /\ test.attempts > 0 => test.initial_pose = "passed"
    /\ test.attempts <= 2
    /\ (test.pc = "return" /\ test.result)
          => (test.initial_pose = "passed" /\ test.reached)
    /\ test.pc = "distance" => test_robot.current_pose # "unset"
    /\ test.pc # "raised"

\* C25, the runs that show it: test_InitialPose has timed out with no pose
\* received, test_all has started a goal attempt all the same (the retry),
\* and distanceFromGoal, evaluated with no pose ever received, has raised
\* AttributeError.
C25_GoalAttemptWithoutInitialPose ==
    /\ test.pc = "raised"
    /\ test.initial_pose = "failed"
    /\ test.attempts = 1
    /\ test.attempt = "retry"
    /\ ~test_robot.initial_pose_received
    /\ test_robot.current_pose = "unset"
    /\ test_robot.currentPose = "initial"

====
